---- MODULE Spec2Model ----
(***************************************************************************)
(* Model of the simulated-trading server (src/unnamed/part_002, the first  *)
(* server listing, lines 1-640): the account table in users.json, the two  *)
(* session maps, and the request handlers register, login, logout,         *)
(* summary, history, trade and ai-insights.                                *)
(*                                                                         *)
(* Representation.                                                         *)
(*  - Money is counted in thousandths of the currency unit, quantities in *)
(*    whole units, so that toFixed(2) is a rounding of an exact value to a *)
(*    multiple of 10 thousandths.                                          *)
(*  - A JavaScript number that may be non-finite is a record               *)
(*    [k |-> "num" | "inf" | "nan" | "null", v |-> Int]; JSON.stringify    *)
(*    writes a non-finite number as null.                                  *)
(*  - Node runs every callback to completion: one action is one callback.  *)
(*    A trade request has two callbacks (the request listener, which       *)
(*    authenticates, and the body's "end" listener, which trades).         *)
(*  - The browser page (src/public/market.js) is the record `client`; the  *)
(*    server handlers leave it alone, and SpecClient moves it alone.       *)
(***************************************************************************)
EXTENDS Integers, Sequences, FiniteSets, Bags, TLC

VARIABLES
  store,         \* users.json when it parses: username -> account record
  torn,          \* TRUE when users.json holds a partial write (does not parse)
  sessions,      \* Map token -> [username, createdAt]
  userSessions,  \* Map username -> token
  pending,       \* bag of trade requests authenticated and awaiting their body
  now,           \* Date.now(), in granules of 1 / Ms millisecond
  nextId,        \* number of crypto.randomUUID() values drawn so far
  nextToken,     \* number of crypto.randomBytes(24) tokens drawn so far
  crashed,       \* TRUE once an exception escaped a listener (process exit)
  last,          \* the response the last step sent, with its request
  acked,         \* per user, the entries of the trades answered 200, oldest first
  observe,       \* whether `last` records the responses (fixed by Init)
  client         \* the browser page of src/public/market.js: its variables,
                 \* its pending timers and its requests in flight

\* The variables of the server.
serverVars == <<store, torn, sessions, userSessions, pending, now, nextId,
                nextToken, crashed, last, acked, observe>>

vars == <<store, torn, sessions, userSessions, pending, now, nextId, nextToken,
          crashed, last, acked, observe, client>>

----------------------------------------------------------------------------
(* Bounds of the model *)

MaxIds == 2        \* UUIDs (trade entries and AI insights) drawn in a run
MaxTokens == 2     \* session tokens drawn in a run
MaxPending == 2    \* trade requests in flight at once

----------------------------------------------------------------------------
(* Program constants *)

INITIAL_BALANCE == 1000000
Scale == 1000                   \* money is held in 1/Scale of the currency unit
FixedStep == 10                 \* toFixed(2): multiples of 0.01 = 10 / Scale
Money(units) == units * Scale

\* Time is counted in granules: a millisecond is Ms granules, so that a
\* fractional millisecond (Math.random) exists; the 12 h and 24 h of the AI
\* intervals are scaled down to 2 and 4 milliseconds.
Ms == 2
AI_MIN_INTERVAL == 2 * Ms
AI_MAX_INTERVAL == 4 * Ms
AI_MAX_ITERATIONS == 10
AI_KEEP == 3

----------------------------------------------------------------------------
(* JavaScript values *)

Num(n) == [k |-> "num", v |-> n]
Infinity == [k |-> "inf", v |-> 0]
NegInfinity == [k |-> "ninf", v |-> 0]
NaN == [k |-> "nan", v |-> 0]
Null == [k |-> "null", v |-> 0]

IsFinite(x) == x.k = "num"

\* ToNumber of a stored field: null reads as +0 in arithmetic and comparison.
ToNumber(x) == IF x.k = "null" THEN Num(0) ELSE x

\* !x for a number: true for 0 and NaN.
Falsy(x) == LET n == ToNumber(x) IN n.k = "nan" \/ (n.k = "num" /\ n.v = 0)

\* a < b on numbers (false when either is NaN).
JsLt(a, b) ==
  LET x == ToNumber(a)
      y == ToNumber(b)
  IN  CASE x.k = "nan" \/ y.k = "nan" -> FALSE
        [] x.k = "inf" \/ y.k = "ninf" -> FALSE
        [] y.k = "inf" \/ x.k = "ninf" -> TRUE
        [] OTHER -> x.v < y.v

\* a <= 0
JsLeZero(a) ==
  LET x == ToNumber(a) IN x.k = "num" /\ x.v <= 0

\* a * b for b > 0 and a > 0 or finite (the products the handler forms).
JsMul(a, b) ==
  LET x == ToNumber(a)
      y == ToNumber(b)
  IN  CASE x.k = "nan" \/ y.k = "nan" -> NaN
        [] x.k = "inf" \/ y.k = "inf" -> Infinity
        [] OTHER -> Num(x.v * y.v)

\* a + b for b > 0
JsAdd(a, b) ==
  LET x == ToNumber(a)
      y == ToNumber(b)
  IN  CASE x.k = "nan" \/ y.k = "nan" -> NaN
        [] x.k = "inf" \/ y.k = "inf" -> Infinity
        [] OTHER -> Num(x.v + y.v)

\* a - b for a, b > -Infinity
JsSub(a, b) ==
  LET x == ToNumber(a)
      y == ToNumber(b)
  IN  CASE x.k = "nan" \/ y.k = "nan" -> NaN
        [] x.k = "inf" /\ y.k = "inf" -> NaN
        [] x.k = "inf" -> Infinity
        [] y.k = "inf" -> NegInfinity
        [] OTHER -> Num(x.v - y.v)

\* JSON.stringify then JSON.parse of a number: NaN and Infinity become null.
JsonNumber(x) == IF x.k = "num" THEN x ELSE Null

\* Nearest integer to a / b (b > 0), halves away from zero, as toFixed rounds.
RoundDiv(a, b) ==
  LET m == IF a >= 0 THEN a ELSE -a
      q == m \div b
      r == m % b
      n == IF 2 * r >= b THEN q + 1 ELSE q
  IN  IF a >= 0 THEN n ELSE -n

\* Number((a / b).toFixed(2)) for the exact quotient a / b of money amounts.
ToFixed2Div(a, b) == RoundDiv(a, b * FixedStep) * FixedStep

\* Number(x.toFixed(2)): "Infinity" and "NaN" print and parse as themselves.
ToFixed2(x) == IF x.k = "num" THEN Num(ToFixed2Div(x.v, 1)) ELSE x

----------------------------------------------------------------------------
(* Request inputs *)

Usernames == {"u1", "u2"}

\* Raw JSON values of the body fields quantity and price.
RawNum(n) == [k |-> "num", v |-> n]
RawHuge == [k |-> "inf", v |-> 0]        \* the JSON literal 1e999
RawText == [k |-> "str", v |-> 0]        \* a string that is no number
RawMissing == [k |-> "undef", v |-> 0]   \* the field is absent

\* Number(x) of a raw body field.
NumberOf(raw) ==
  CASE raw.k = "num" -> Num(raw.v)
    [] raw.k = "inf" -> Infinity
    [] OTHER -> NaN

\* Raw JSON values of the body field symbol.
RawString(s) == [k |-> "string", s |-> s]
RawNotString == [k |-> "number", s |-> "7"]

\* Faulty variant of TrimUpperCase: the symbol is trimmed and its case kept.
TrimOnly(s) ==
  CASE s \in {"hog", " hog "} -> "hog"
    [] s \in {"gold"} -> "gold"
    [] s \in {" Gold"} -> "Gold"
    [] s \in {"", " ", "  "} -> ""
    [] OTHER -> s

\* s.trim().toUpperCase() on the strings the model submits.
TrimUpperCase(s) ==
  CASE s \in {"HOG", "hog", " hog "} -> "HOG"
    [] s \in {"GOLD", "gold", " Gold"} -> "GOLD"
    [] s \in {"", " ", "  "} -> ""
    [] OTHER -> s

\* typeof symbol === 'string' ? symbol.trim().toUpperCase() : ''
TrimmedSymbol(raw) == IF raw.k = "string" THEN TrimUpperCase(raw.s) ELSE ""

\* s.toUpperCase() of a query parameter
ToUpperCase(s) ==
  CASE s \in {"HOG", "hog"} -> "HOG"
    [] s \in {"GOLD", "gold"} -> "GOLD"
    [] s \in {" hog ", " HOG "} -> " HOG "
    [] OTHER -> s

TradeBody(type, symbol, quantity, price) ==
  [type |-> type, symbol |-> symbol, quantity |-> quantity, price |-> price]

----------------------------------------------------------------------------
(* The account table *)

EmptyMap == <<>>

Has(f, key) == key \in DOMAIN f

\* obj with obj[key] = value
Put(f, key, value) ==
  [x \in DOMAIN f \cup {key} |-> IF x = key THEN value ELSE f[x]]

\* obj after delete obj[key]
Delete(f, key) == [x \in DOMAIN f \ {key} |-> f[x]]

Range(f) == {f[x] : x \in DOMAIN f}

NewAccount(password) ==
  [password |-> password,
   balance |-> Num(Money(INITIAL_BALANCE)),
   holdings |-> EmptyMap,
   history |-> <<>>,
   aiInsights |-> EmptyMap]

\* JSON.stringify then JSON.parse of one history entry.
JsonEntry(e) ==
  [e EXCEPT !.price = JsonNumber(@),
            !.balanceAfter = JsonNumber(@),
            !.realizedPnl = JsonNumber(@)]

\* JSON.stringify then JSON.parse of one account.
JsonUser(user) ==
  [f \in DOMAIN user |->
     CASE f = "balance" -> JsonNumber(user[f])
       [] f = "history" -> [i \in DOMAIN user[f] |->
                              IF Has(user[f][i], "price") THEN JsonEntry(user[f][i])
                                                          ELSE user[f][i]]
       [] OTHER -> user[f]]

\* JSON.stringify(users, null, 2) then JSON.parse: what a complete write leaves
\* to the next readUsers.
JsonUsers(users) == [u \in DOMAIN users |-> JsonUser(users[u])]

WriteOk == "ok"                \* writeFileSync returned
WriteUnwritten == "unwritten"  \* writeFileSync threw before it truncated the file
WriteTorn == "torn"            \* writeFileSync threw after it truncated the file
NoFaults == {WriteOk}
Faults == {WriteOk, WriteUnwritten, WriteTorn}

\* Faulty variant of writeUsers: a write that fails midway leaves a readable
\* file with the new balances and the old holdings and histories.
writeUsersPartial(users, w, before) ==
  CASE w = WriteOk -> [users |-> JsonUsers(users), torn |-> FALSE, threw |-> FALSE]
    [] w = WriteTorn ->
         [users |-> [u \in DOMAIN before.users |->
                       [before.users[u] EXCEPT
                          !.balance = JsonNumber(users[u].balance)]],
          torn |-> FALSE, threw |-> TRUE]
    [] OTHER -> [users |-> before.users, torn |-> before.torn, threw |-> TRUE]

\* Faulty variant of writeUsers: a failure of writeFileSync is swallowed.
writeUsersSwallow(users, w, before) ==
  CASE w = WriteOk -> [users |-> JsonUsers(users), torn |-> FALSE, threw |-> FALSE]
    [] w = WriteTorn -> [users |-> EmptyMap, torn |-> TRUE, threw |-> FALSE]
    [] OTHER -> [users |-> before.users, torn |-> before.torn, threw |-> FALSE]

\* writeUsers(users) with outcome w, as [users, torn, threw] of the file after it.
writeUsers(users, w, before) ==
  CASE w = WriteOk -> [users |-> JsonUsers(users), torn |-> FALSE, threw |-> FALSE]
    [] w = WriteTorn -> [users |-> EmptyMap, torn |-> TRUE, threw |-> TRUE]
    [] OTHER -> [users |-> before.users, torn |-> before.torn, threw |-> TRUE]

\* The holdings a record without a holdings field is given.
LegacyHoldings(user) ==
  IF Has(user, "position") /\ user.position # 0
  THEN [s \in {"HOG"} |->
          [position |-> user.position,
           averagePrice |-> IF Has(user, "averagePrice") THEN user.averagePrice ELSE 0]]
  ELSE EmptyMap

EntryNeedsSymbol(entry) == ~Has(entry, "symbol") \/ entry.symbol = ""

\* Faulty variant of NormalizeUser: history entries are left without a symbol.
NormalizeUserUntagged(user) ==
  LET a == IF Has(user, "holdings") THEN user
           ELSE Put(Delete(Delete(user, "position"), "averagePrice"),
                    "holdings", LegacyHoldings(user))
      b == IF Has(a, "history") THEN a ELSE Put(a, "history", <<>>)
  IN  IF Has(b, "aiInsights") THEN b ELSE Put(b, "aiInsights", EmptyMap)

\* The body of normalizeUsers' loop for one record.
NormalizeUser(user) ==
  LET a == IF Has(user, "holdings") THEN user
           ELSE Put(Delete(Delete(user, "position"), "averagePrice"),
                    "holdings", LegacyHoldings(user))
      b == IF Has(a, "history") THEN a ELSE Put(a, "history", <<>>)
      c == IF Has(b, "aiInsights") THEN b ELSE Put(b, "aiInsights", EmptyMap)
  IN  [c EXCEPT !.history =
         [i \in DOMAIN @ |->
            IF EntryNeedsSymbol(@[i]) THEN Put(@[i], "symbol", "HOG") ELSE @[i]]]

\* normalizeUsers' flag updated
NormalizeUpdated(users) == \E u \in DOMAIN users : NormalizeUser(users[u]) # users[u]

normalizeUsers(users) == [u \in DOMAIN users |-> NormalizeUser(users[u])]

\* readUsers() with write outcome w for the rewrite normalizeUsers may make:
\* [threw, users (the table returned), file (the file afterwards)].
readUsers(w) ==
  LET before == [users |-> store, torn |-> torn]
      users == normalizeUsers(store)
      wr == writeUsers(users, w, before)
  IN  IF torn
      THEN [threw |-> TRUE, users |-> EmptyMap, file |-> before]
      ELSE IF NormalizeUpdated(store)
           THEN [threw |-> wr.threw, users |-> users,
                 file |-> [users |-> wr.users, torn |-> wr.torn]]
           ELSE [threw |-> FALSE, users |-> users, file |-> before]

----------------------------------------------------------------------------
(* Sessions *)

\* Faulty variant of createSession: the token the user held stays valid.
createSessionKeepOld(username, token) ==
  [userSessions |-> Put(userSessions, username, token),
   sessions |-> Put(sessions, token, [username |-> username, createdAt |-> now])]

\* createSession(username) with the fresh token: the two maps afterwards.
createSession(username, token) ==
  LET kept == IF Has(userSessions, username)
              THEN Delete(sessions, userSessions[username])
              ELSE sessions
  IN  [userSessions |-> Put(userSessions, username, token),
       sessions |-> Put(kept, token, [username |-> username, createdAt |-> now])]

\* Faulty variant of clearSession: every session is dropped.
clearSessionAll(token) == [userSessions |-> EmptyMap, sessions |-> EmptyMap]

\* clearSession(token): the two maps afterwards.
clearSession(token) ==
  IF ~Has(sessions, token)
  THEN [userSessions |-> userSessions, sessions |-> sessions]
  ELSE LET username == sessions[token].username
       IN  [userSessions |-> IF Has(userSessions, username)
                                  /\ userSessions[username] = token
                               THEN Delete(userSessions, username)
                               ELSE userSessions,
            sessions |-> Delete(sessions, token)]

NoToken == 0

\* Faulty variant of authenticate: every request is taken for one of u1.
authenticateAnyone(token) == "u1"

\* authenticate(req): the username of the token, or "" for null.
authenticate(token) ==
  IF token # NoToken /\ Has(sessions, token) THEN sessions[token].username ELSE ""

----------------------------------------------------------------------------
(* Responses *)

ErrAuth == "Unauthorized"                        \* 401, withAuth
ErrCredentials == "BadCredentials"               \* 401, handleLogin
ErrRequired == "UsernamePasswordRequired"        \* 400, register and login
ErrExists == "UsernameExists"                    \* 400, handleRegister
ErrInvalidSide == "InvalidSide"                  \* 400, handleTrade
ErrInvalidSymbol == "InvalidSymbol"              \* 400, handleTrade
ErrInvalidAmount == "InvalidAmount"              \* 400, handleTrade
ErrUnknownAccount == "UnknownAccount"            \* 404
ErrInsufficientFunds == "InsufficientFunds"      \* 400, handleTrade
ErrInsufficientPosition == "InsufficientPosition" \* 400, handleTrade
ErrException == "ExceptionMessage"               \* 400, .catch(err => err.message)
NoError == ""

StatusOk == 200
StatusBadRequest == 400
StatusUnauthorized == 401
StatusNotFound == 404
StatusNone == 0          \* no response: the process exited

----------------------------------------------------------------------------
(* handleTrade *)

\* ensureHoldingStructure(user.holdings[symbol])
ensureHoldingStructure(holdings, symbol) ==
  IF Has(holdings, symbol)
  THEN [position |-> holdings[symbol].position,
        averagePrice |-> holdings[symbol].averagePrice]
  ELSE [position |-> 0, averagePrice |-> 0]

\* Faulty variant of TradeValidation: the symbol is checked before the side.
TradeValidationSymbolFirst(body) ==
  LET qty == NumberOf(body.quantity)
      tradePrice == NumberOf(body.price)
  IN  CASE TrimmedSymbol(body.symbol) = "" -> ErrInvalidSymbol
        [] body.type \notin {"buy", "sell"} -> ErrInvalidSide
        [] Falsy(qty) \/ JsLeZero(qty) \/ Falsy(tradePrice) \/ JsLeZero(tradePrice)
             -> ErrInvalidAmount
        [] OTHER -> NoError

\* Faulty variant of TradeValidation: the amounts are not checked.
TradeValidationNoAmount(body) ==
  CASE body.type \notin {"buy", "sell"} -> ErrInvalidSide
    [] TrimmedSymbol(body.symbol) = "" -> ErrInvalidSymbol
    [] OTHER -> NoError

\* The first validation of handleTrade that fails, or NoError.
TradeValidation(body) ==
  LET qty == NumberOf(body.quantity)
      tradePrice == NumberOf(body.price)
  IN  CASE body.type \notin {"buy", "sell"} -> ErrInvalidSide
        [] TrimmedSymbol(body.symbol) = "" -> ErrInvalidSymbol
        [] Falsy(qty) \/ JsLeZero(qty) \/ Falsy(tradePrice) \/ JsLeZero(tradePrice)
             -> ErrInvalidAmount
        [] OTHER -> NoError

\* The buy branch without its rejection, for the faulty variants below.
BuyApplied(user, holding, qty, tradePrice) ==
  LET newPosition == holding.position + qty.v
  IN  [error |-> NoError,
       user |-> [user EXCEPT !.balance = JsSub(@, JsMul(tradePrice, qty))],
       holding |-> [position |-> newPosition,
                    averagePrice |->
                      ToFixed2Div(holding.averagePrice * holding.position
                                    + tradePrice.v * qty.v, newPosition)],
       realizedPnl |-> Num(0)]

\* Faulty variant of ApplyBuy: the balance is not checked.
ApplyBuyUnchecked(user, holding, qty, tradePrice) ==
  BuyApplied(user, holding, qty, tradePrice)

\* Faulty variant of ApplyBuy: balance <= cost is rejected (for balance < cost).
ApplyBuyStrict(user, holding, qty, tradePrice) ==
  IF ~JsLt(JsMul(tradePrice, qty), user.balance)
  THEN [error |-> ErrInsufficientFunds, user |-> user, holding |-> holding,
        realizedPnl |-> Num(0)]
  ELSE BuyApplied(user, holding, qty, tradePrice)

\* Faulty variant of ApplyBuy: the average is the plain mean of the old average
\* and the price, whatever the quantities.
ApplyBuyUnweighted(user, holding, qty, tradePrice) ==
  IF JsLt(user.balance, JsMul(tradePrice, qty))
  THEN [error |-> ErrInsufficientFunds, user |-> user, holding |-> holding,
        realizedPnl |-> Num(0)]
  ELSE [BuyApplied(user, holding, qty, tradePrice) EXCEPT
          !.holding.averagePrice =
             ToFixed2Div(holding.averagePrice + tradePrice.v, 2)]

\* Faulty variant of ApplyBuy: the average is cut to 2 decimals, not rounded.
ApplyBuyTruncated(user, holding, qty, tradePrice) ==
  IF JsLt(user.balance, JsMul(tradePrice, qty))
  THEN [error |-> ErrInsufficientFunds, user |-> user, holding |-> holding,
        realizedPnl |-> Num(0)]
  ELSE [BuyApplied(user, holding, qty, tradePrice) EXCEPT
          !.holding.averagePrice =
             ((holding.averagePrice * holding.position + tradePrice.v * qty.v)
                \div ((holding.position + qty.v) * FixedStep)) * FixedStep]

\* The buy branch on a loaded account: [error, user, holding, realizedPnl].
ApplyBuy(user, holding, qty, tradePrice) ==
  LET cost == JsMul(tradePrice, qty)
      newPosition == holding.position + qty.v
      newAvgPrice ==
        IF newPosition = 0 THEN 0
        ELSE ToFixed2Div(holding.averagePrice * holding.position + tradePrice.v * qty.v,
                         newPosition)
  IN  IF JsLt(user.balance, cost)
      THEN [error |-> ErrInsufficientFunds, user |-> user, holding |-> holding,
            realizedPnl |-> Num(0)]
      ELSE [error |-> NoError,
            user |-> [user EXCEPT !.balance = JsSub(@, cost)],
            holding |-> [position |-> newPosition, averagePrice |-> newAvgPrice],
            realizedPnl |-> Num(0)]

\* The sell branch without its rejection, for the faulty variants below.
SellApplied(user, holding, qty, tradePrice) ==
  [error |-> NoError,
   user |-> [user EXCEPT !.balance = JsAdd(@, JsMul(tradePrice, qty))],
   holding |-> [position |-> holding.position - qty.v,
                averagePrice |-> IF holding.position - qty.v = 0 THEN 0
                                 ELSE holding.averagePrice],
   realizedPnl |-> JsMul(JsSub(tradePrice, Num(holding.averagePrice)), qty)]

\* Faulty variant of ApplySell: the position is not checked.
ApplySellUnchecked(user, holding, qty, tradePrice) ==
  SellApplied(user, holding, qty, tradePrice)

\* Faulty variant of ApplySell: only a sell from an empty position is rejected.
ApplySellIfHeld(user, holding, qty, tradePrice) ==
  IF holding.position = 0 \/ ~IsFinite(qty)
  THEN [error |-> ErrInsufficientPosition, user |-> user, holding |-> holding,
        realizedPnl |-> Num(0)]
  ELSE SellApplied(user, holding, qty, tradePrice)

\* Faulty variant of ApplySell: the units left take the price of the sell as
\* their cost.
ApplySellRepriced(user, holding, qty, tradePrice) ==
  IF JsLt(Num(holding.position), qty)
  THEN [error |-> ErrInsufficientPosition, user |-> user, holding |-> holding,
        realizedPnl |-> Num(0)]
  ELSE [error |-> NoError,
        user |-> [user EXCEPT !.balance = JsAdd(@, JsMul(tradePrice, qty))],
        holding |-> [position |-> holding.position - qty.v,
                     averagePrice |-> IF holding.position - qty.v = 0 THEN 0
                                      ELSE tradePrice.v],
        realizedPnl |-> JsMul(JsSub(tradePrice, Num(holding.averagePrice)), qty)]

\* The sell branch on a loaded account: [error, user, holding, realizedPnl].
ApplySell(user, holding, qty, tradePrice) ==
  LET revenue == JsMul(tradePrice, qty)
      realizedPnl == JsMul(JsSub(tradePrice, Num(holding.averagePrice)), qty)
      newPosition == holding.position - qty.v
  IN  IF JsLt(Num(holding.position), qty)
      THEN [error |-> ErrInsufficientPosition, user |-> user, holding |-> holding,
            realizedPnl |-> Num(0)]
      ELSE [error |-> NoError,
            user |-> [user EXCEPT !.balance = JsAdd(@, revenue)],
            holding |-> [position |-> newPosition,
                         averagePrice |-> IF newPosition = 0 THEN 0
                                          ELSE holding.averagePrice],
            realizedPnl |-> realizedPnl]

\* Faulty variant of StoreHolding: the key is kept at position 0.
StoreHoldingKeep(holdings, symbol, holding) == Put(holdings, symbol, holding)

\* Faulty variant of StoreHolding: the holdings are replaced by the one traded.
StoreHoldingAlone(holdings, symbol, holding) ==
  IF holding.position = 0 THEN EmptyMap
                          ELSE Put(EmptyMap, symbol, holding)

\* user.holdings after the trade: the key is deleted at position 0.
StoreHolding(holdings, symbol, holding) ==
  IF holding.position = 0 THEN Delete(holdings, symbol)
                          ELSE Put(holdings, symbol, holding)

\* Faulty variant of PrependHistory: the entry is pushed at the end.
AppendHistory(history, entry) == Append(history, entry)

\* Faulty variant of PrependHistory: the earlier entries are dropped.
KeepLatestOnly(history, entry) == <<entry>>

\* user.history = [entry, ...user.history]
PrependHistory(history, entry) == <<entry>> \o history

\* The trade proper, on the table readUsers returned (lines 296-350):
\* [status, error, users, entry].
ExecuteTrade(users, username, body, id) ==
  LET qty == NumberOf(body.quantity)
      tradePrice == NumberOf(body.price)
      symbol == TrimmedSymbol(body.symbol)
      user == users[username]
      holding == ensureHoldingStructure(user.holdings, symbol)
      r == IF body.type = "buy" THEN ApplyBuy(user, holding, qty, tradePrice)
                                ELSE ApplySell(user, holding, qty, tradePrice)
      entry == [id |-> id,
                timestamp |-> now,
                type |-> body.type,
                symbol |-> symbol,
                quantity |-> qty.v,
                price |-> tradePrice,
                balanceAfter |-> r.user.balance,
                positionAfter |-> r.holding.position,
                realizedPnl |-> ToFixed2(r.realizedPnl)]
      newUser == [r.user EXCEPT
                    !.holdings = StoreHolding(@, symbol, r.holding),
                    !.history = PrependHistory(@, entry)]
  IN  IF ~Has(users, username)
      THEN [status |-> StatusNotFound, error |-> ErrUnknownAccount,
            users |-> users, entry |-> <<>>]
      ELSE IF r.error # NoError
      THEN [status |-> StatusBadRequest, error |-> r.error,
            users |-> users, entry |-> <<>>]
      ELSE [status |-> StatusOk, error |-> NoError,
            users |-> Put(users, username, newUser), entry |-> entry]

----------------------------------------------------------------------------
(* AI insights *)

\* new Date(millis).toISOString(), read back by Date.parse: whole milliseconds.
ToISOString(millis) == (millis \div Ms) * Ms

\* The values randomAiInterval(base) - base can take.
AiSpans == AI_MIN_INTERVAL .. (AI_MAX_INTERVAL - 1)

\* The directions createAiInsight draws from pool.outcomes.
AiDirections == {"up", "down"}

\* createAiInsight(symbol, pool, issuedAtMillis) with the outcome drawn.
createAiInsight(id, symbol, issuedAtMillis, direction) ==
  [id |-> id, symbol |-> symbol, issuedAt |-> ToISOString(issuedAtMillis),
   direction |-> direction]

\* A state built by ensureAiState from nothing: every outcome of the draws.
FreshAiStates(symbol, id, spans, dirs) ==
  {[state |-> [entries |-> <<createAiInsight(id + 1, symbol, now, d)>>,
               nextRefreshAt |-> ToISOString(now + sp)],
    used |-> 1] : d \in dirs, sp \in spans}

\* ensureAiState(user, symbol, pool): the possible [state, used] (used = UUIDs drawn).
ensureAiState(user, symbol, id, spans, dirs) ==
  IF ~Has(user.aiInsights, symbol)
  THEN FreshAiStates(symbol, id, spans, dirs)
  ELSE LET state == user.aiInsights[symbol]
       IN  IF ~Has(state, "entries") \/ Len(state.entries) = 0
           THEN FreshAiStates(symbol, id, spans, dirs)
           ELSE IF ~Has(state, "nextRefreshAt")
           THEN {[state |-> Put(state, "nextRefreshAt",
                                ToISOString(state.entries[1].issuedAt + sp)),
                  used |-> 0] : sp \in spans}
           ELSE {[state |-> state, used |-> 0]}

\* Faulty variant of UnshiftKeep: no entry is dropped.
UnshiftAll(entries, insight) == <<insight>> \o entries

\* state.entries.unshift(insight); state.entries = state.entries.slice(0, 3)
UnshiftKeep(entries, insight) ==
  LET all == <<insight>> \o entries
  IN  SubSeq(all, 1, IF Len(all) < AI_KEEP THEN Len(all) ELSE AI_KEEP)

\* The while loop of rollAiState from (entries, nextMillis, iterations):
\* the possible [entries, nextMillis, used] at its exit.
RECURSIVE RollLoop(_, _, _, _, _, _, _)
RollLoop(entries, nextMillis, iterations, symbol, id, spans, dirs) ==
  IF nextMillis <= now /\ iterations < AI_MAX_ITERATIONS
  THEN UNION {RollLoop(UnshiftKeep(entries,
                         createAiInsight(id + iterations + 1, symbol, nextMillis, d)),
                       nextMillis + sp, iterations + 1, symbol, id, spans, dirs)
              : d \in dirs, sp \in spans}
  ELSE {[entries |-> entries, nextMillis |-> nextMillis, used |-> iterations]}

\* rollAiState(state, pool, symbol): the possible [state, used].
rollAiState(state, symbol, id, spans, dirs) ==
  {[state |-> [state EXCEPT !.entries = r.entries,
                            !.nextRefreshAt = ToISOString(r.nextMillis)],
    used |-> r.used]
   : r \in RollLoop(state.entries, state.nextRefreshAt, 0, symbol, id, spans, dirs)}

\* Faulty variant of AiInsightsOf: the states of the other symbols are dropped.
AiInsightsOfAlone(user, symbol, id, spans, dirs) ==
  UNION {{[user |-> [user EXCEPT !.aiInsights = Put(EmptyMap, symbol, r.state)],
           state |-> r.state,
           used |-> e.used + r.used]
          : r \in rollAiState(e.state, symbol, id + e.used, spans, dirs)}
         : e \in ensureAiState(user, symbol, id, spans, dirs)}

\* Lines 576-583 of handleAiInsights on the loaded account: the possible
\* [user, state, used].
AiInsightsOf(user, symbol, id, spans, dirs) ==
  UNION {{[user |-> [user EXCEPT !.aiInsights = Put(@, symbol, r.state)],
           state |-> r.state,
           used |-> e.used + r.used]
          : r \in rollAiState(e.state, symbol, id + e.used, spans, dirs)}
         : e \in ensureAiState(user, symbol, id, spans, dirs)}

----------------------------------------------------------------------------
(* The browser page *)

\* Values setTimeout and setInterval return; 0 stands for null.
TimerIds == 1 .. 4

\* The page once the script has run and no session was restored (lines 30-38,
\* 544-546): the forms are shown, no timer is set, nothing is in flight.
ClientLoaded ==
  [page |-> "auth", token |-> FALSE, priceTimer |-> 0, aiTimer |-> 0,
   aiRefreshing |-> FALSE, kickout |-> FALSE, timers |-> {},
   calls |-> EmptyBag]

\* A request in flight: auth tells whether request() found a token to send.
ClientCall(op, c) == [op |-> op, auth |-> c.token]

\* What the await of request() can give: data, the 401 branch, another error.
CallOutcomes(call) ==
  IF call.auth \/ call.op = "login" THEN {"ok", "unauthorized", "error"}
  ELSE {"unauthorized", "error"}

\* A timer id the browser has not handed out to a timer still known.
FreshTimer(c) ==
  CHOOSE id \in TimerIds :
    id \notin {t.id : t \in c.timers} \cup {c.priceTimer, c.aiTimer}

\* clearTimeout(id) / clearInterval(id)
ClearTimer(timers, id) == {t \in timers : t.id # id}

\* clearSession() of the page
ClientClearSession(c) == [c EXCEPT !.token = FALSE]

startPriceStream(c) ==
  IF c.priceTimer # 0 THEN c
  ELSE LET id == FreshTimer(c)
       IN  [c EXCEPT !.priceTimer = id,
                     !.timers = @ \cup {[kind |-> "price", id |-> id]}]

stopPriceStream(c) ==
  IF c.priceTimer # 0
  THEN [c EXCEPT !.timers = ClearTimer(@, c.priceTimer), !.priceTimer = 0]
  ELSE c

stopAiAutoRefresh(c) ==
  IF c.aiTimer # 0
  THEN [c EXCEPT !.timers = ClearTimer(@, c.aiTimer), !.aiTimer = 0]
  ELSE c

\* scheduleAiAutoRefresh(nextRefreshAt); valid: nextRefreshAt is a date.
scheduleAiAutoRefresh(c, valid) ==
  LET cleared == stopAiAutoRefresh(c)
      id == FreshTimer(cleared)
  IN  IF ~valid THEN cleared
      ELSE [cleared EXCEPT !.aiTimer = id,
                           !.timers = @ \cup {[kind |-> "ai", id |-> id]}]

\* kickout: the kick-out banner is shown.
handleUnauthorized(c) ==
  [stopAiAutoRefresh(stopPriceStream(ClientClearSession(c)))
     EXCEPT !.page = "auth", !.kickout = TRUE]

\* fetchAiInsights() up to its await.
fetchAiInsights(c) ==
  IF c.aiRefreshing THEN c
  ELSE [c EXCEPT !.aiRefreshing = TRUE,
                 !.calls = @ (+) SetToBag({ClientCall("ai", c)})]

\* enterMarket() up to its first await; the call "reads" is the Promise.all of
\* refreshSummary and refreshHistory.
enterMarket(c) ==
  LET shown == stopAiAutoRefresh(startPriceStream(
                 [c EXCEPT !.page = "market", !.kickout = FALSE]))
  IN  [shown EXCEPT !.calls = @ (+) SetToBag({ClientCall("reads", shown)})]

\* The finally block of the logout click handler.
LogoutFinally(c) ==
  [stopAiAutoRefresh(stopPriceStream(ClientClearSession(c)))
     EXCEPT !.page = "auth", !.kickout = FALSE]

\* The page with the call taken out of those in flight.
Answered(c, call) == [c EXCEPT !.calls = @ (-) SetToBag({call})]

InFlight(c) == BagCardinality(c.calls)

----------------------------------------------------------------------------
(* State *)

PendingRequest(username) == [username |-> username]

NoResponse ==
  [op |-> "none", user |-> "", status |-> StatusNone, error |-> NoError,
   body |-> <<>>, entry |-> <<>>]

\* sendJson(res, status, payload) for a request of kind op, as `last` keeps it:
\* body is the request's input, entry the payload's data.
Response(op, user, status, error, body, entry) ==
  IF observe
  THEN [op |-> op, user |-> user, status |-> status, error |-> error,
        body |-> body, entry |-> entry]
  ELSE NoResponse

\* The server after start-up on a new data directory (lines 11-23).
Started ==
  /\ store = EmptyMap
  /\ torn = FALSE
  /\ client = ClientLoaded
  /\ sessions = EmptyMap
  /\ userSessions = EmptyMap
  /\ pending = EmptyBag
  /\ now = 0
  /\ nextId = 0
  /\ nextToken = 0
  /\ crashed = FALSE
  /\ last = NoResponse
  /\ acked = [u \in Usernames |-> <<>>]

Init ==
  /\ Started
  /\ observe = FALSE

\* The file after a handler that leaves the file as `file`.
SetFile(file) ==
  /\ store' = file.users
  /\ torn' = file.torn

\* An exception left the request listener: the process exits.
Crash(op, user, file) ==
  /\ SetFile(file)
  /\ crashed' = TRUE
  /\ last' = Response(op, user, StatusNone, ErrException, <<>>, <<>>)
  /\ sessions' = EmptyMap
  /\ userSessions' = EmptyMap
  /\ pending' = EmptyBag

----------------------------------------------------------------------------
(* Handlers *)

\* Faulty variant of AddAccount: the table is started afresh.
AddAccountAlone(users, username, password) ==
  Put(EmptyMap, username, NewAccount(password))

\* Names every object parsed from JSON inherits from Object.prototype.
InheritedKeys == {"constructor", "toString"}

\* users[key] is truthy (line 177): the table has the key, or inherits it.
HasProperty(users, key) == Has(users, key) \/ key \in InheritedKeys

\* users[username] = { password, balance: INITIAL_BALANCE, ... } (lines 181-187)
AddAccount(users, username, password) ==
  Put(users, username, NewAccount(password))

\* handleRegister, run when the body has been received.
Register(username, password, w) ==
  LET rd == readUsers(w)
      wr == writeUsers(AddAccount(rd.users, username, password), w, rd.file)
  IN  /\ ~crashed
      /\ observe' = observe /\ client' = client
      /\ IF username = "" \/ password = ""
         THEN /\ last' = Response("register", username, StatusBadRequest,
                                  ErrRequired, <<>>, <<>>)
              /\ UNCHANGED <<store, torn>>
         ELSE IF rd.threw
         THEN /\ last' = Response("register", username, StatusBadRequest,
                                  ErrException, <<>>, <<>>)
              /\ SetFile(rd.file)
         ELSE IF HasProperty(rd.users, username)
         THEN /\ last' = Response("register", username, StatusBadRequest,
                                  ErrExists, <<>>, <<>>)
              /\ SetFile(rd.file)
         ELSE /\ SetFile([users |-> wr.users, torn |-> wr.torn])
              /\ last' = IF wr.threw
                         THEN Response("register", username, StatusBadRequest,
                                       ErrException, <<>>, <<>>)
                         ELSE Response("register", username, StatusOk, NoError,
                                       <<>>, <<>>)
      /\ UNCHANGED <<sessions, userSessions, pending, now, nextId, nextToken,
                     crashed, acked>>

\* handleLogin, run when the body has been received.
Login(username, password, w) ==
  LET rd == readUsers(w)
      token == nextToken + 1
      made == createSession(username, token)
      ok == /\ username # "" /\ password # ""
            /\ ~rd.threw
            /\ Has(rd.users, username)
            /\ rd.users[username].password = password
  IN  /\ ~crashed
      /\ observe' = observe /\ client' = client
      /\ ok => nextToken < MaxTokens
      /\ IF username = "" \/ password = ""
         THEN /\ last' = Response("login", username, StatusBadRequest,
                                  ErrRequired, <<>>, <<>>)
              /\ UNCHANGED <<store, torn>>
         ELSE IF rd.threw
         THEN /\ last' = Response("login", username, StatusBadRequest,
                                  ErrException, <<>>, <<>>)
              /\ SetFile(rd.file)
         ELSE /\ SetFile(rd.file)
              /\ last' = IF ok
                         THEN Response("login", username, StatusOk, NoError,
                                       <<>>, token)
                         ELSE Response("login", username, StatusUnauthorized,
                                       ErrCredentials, <<>>, <<>>)
      /\ IF ok
         THEN /\ sessions' = made.sessions
              /\ userSessions' = made.userSessions
              /\ nextToken' = token
         ELSE UNCHANGED <<sessions, userSessions, nextToken>>
      /\ UNCHANGED <<pending, now, nextId, crashed, acked>>

\* handleLogout
Logout(token) ==
  LET cleared == IF token # NoToken THEN clearSession(token)
                 ELSE [userSessions |-> userSessions, sessions |-> sessions]
  IN  /\ ~crashed
      /\ observe' = observe /\ client' = client
      /\ sessions' = cleared.sessions
      /\ userSessions' = cleared.userSessions
      /\ last' = Response("logout", authenticate(token), StatusOk, NoError,
                          <<>>, token)
      /\ UNCHANGED <<store, torn, pending, now, nextId, nextToken, crashed, acked>>

\* withAuth's 401 for a request of kind op.
Unauthorized(op) ==
  /\ last' = Response(op, "", StatusUnauthorized, ErrAuth, <<>>, <<>>)
  /\ UNCHANGED <<store, torn, sessions, userSessions, pending, nextId, nextToken,
                 crashed, acked>>

\* handleSummary
Summary(token, w) ==
  LET username == authenticate(token)
      rd == readUsers(w)
  IN  /\ ~crashed
      /\ observe' = observe /\ client' = client
      /\ now' = now
      /\ IF username = "" THEN Unauthorized("summary")
         ELSE IF rd.threw THEN /\ Crash("summary", username, rd.file)
                               /\ UNCHANGED <<nextId, nextToken, acked>>
         ELSE /\ SetFile(rd.file)
              /\ last' =
                   IF ~Has(rd.users, username)
                   THEN Response("summary", username, StatusNotFound,
                                 ErrUnknownAccount, <<>>, <<>>)
                   ELSE Response("summary", username, StatusOk, NoError, <<>>,
                                 JsonUser([balance |-> rd.users[username].balance,
                                           holdings |-> rd.users[username].holdings,
                                           history |-> rd.users[username].history]))
              /\ UNCHANGED <<sessions, userSessions, pending, nextId, nextToken,
                             crashed, acked>>

\* Faulty variant of FilterHistory: nothing is filtered out.
FilterHistoryAll(history, symbol) == history

\* (user.history || []).filter((entry) => entry.symbol === symbol)
FilterHistory(history, symbol) == SelectSeq(history, LAMBDA e : e.symbol = symbol)

\* handleHistory; param is the symbol query parameter ("" when absent).
History(token, param, w) ==
  LET username == authenticate(token)
      rd == readUsers(w)
      symbol == ToUpperCase(param)
  IN  /\ ~crashed
      /\ observe' = observe /\ client' = client
      /\ now' = now
      /\ IF username = "" THEN Unauthorized("history")
         ELSE IF rd.threw THEN /\ Crash("history", username, rd.file)
                               /\ UNCHANGED <<nextId, nextToken, acked>>
         ELSE /\ SetFile(rd.file)
              /\ last' =
                   IF ~Has(rd.users, username)
                   THEN Response("history", username, StatusNotFound,
                                 ErrUnknownAccount, param, <<>>)
                   ELSE Response("history", username, StatusOk, NoError, param,
                                 IF symbol # ""
                                 THEN FilterHistory(rd.users[username].history, symbol)
                                 ELSE rd.users[username].history)
              /\ UNCHANGED <<sessions, userSessions, pending, nextId, nextToken,
                             crashed, acked>>


\* handleTrade's request listener: withAuth, then parseBody waits for the body.
TradeRequest(token) ==
  LET username == authenticate(token)
  IN  /\ ~crashed
      /\ observe' = observe /\ client' = client
      /\ now' = now
      /\ IF username = "" THEN Unauthorized("trade")
         ELSE /\ BagCardinality(pending) < MaxPending
              /\ pending' = pending (+) SetToBag({PendingRequest(username)})
              /\ last' = NoResponse
              /\ UNCHANGED <<store, torn, sessions, userSessions, nextId, nextToken,
                             crashed, acked>>

\* parseBody rejected (the body is no JSON): handleTrade's .catch answers 400.
TradeBodyRejected(req) ==
  /\ ~crashed
  /\ observe' = observe /\ client' = client
  /\ BagIn(req, pending)
  /\ pending' = pending (-) SetToBag({req})
  /\ last' = Response("trade", req.username, StatusBadRequest, ErrException,
                      <<>>, <<>>)
  /\ UNCHANGED <<store, torn, sessions, userSessions, now, nextId, nextToken,
                 crashed, acked>>

\* handleTrade's .then callback for the pending request req, whose body parsed
\* to `body`; w1 and w2 are the outcomes of the writes of readUsers and of line 351.
TradeBodyEnd(req, body, w1, w2) ==
  LET username == req.username
      invalid == TradeValidation(body)
      rd == readUsers(w1)
      t == ExecuteTrade(rd.users, username, body, nextId + 1)
      wr == writeUsers(t.users, w2, rd.file)
      reject(status, error) == Response("trade", username, status, error, body, <<>>)
  IN  /\ ~crashed
      /\ observe' = observe /\ client' = client
      /\ BagIn(req, pending)
      /\ pending' = pending (-) SetToBag({req})
      /\ IF invalid # NoError
         THEN /\ last' = reject(StatusBadRequest, invalid)
              /\ UNCHANGED <<store, torn, nextId, acked>>
         ELSE IF rd.threw
         THEN /\ last' = reject(StatusBadRequest, ErrException)
              /\ SetFile(rd.file)
              /\ UNCHANGED <<nextId, acked>>
         ELSE IF t.status # StatusOk
         THEN /\ last' = reject(t.status, t.error)
              /\ SetFile(rd.file)
              /\ UNCHANGED <<nextId, acked>>
         ELSE /\ nextId < MaxIds
              /\ nextId' = nextId + 1
              /\ SetFile([users |-> wr.users, torn |-> wr.torn])
              /\ IF wr.threw
                 THEN /\ last' = reject(StatusBadRequest, ErrException)
                      /\ acked' = acked
                 ELSE /\ last' = Response("trade", username, StatusOk, NoError,
                                          body, JsonEntry(t.entry))
                      /\ acked' = [acked EXCEPT
                                     ![username] = Append(@, JsonEntry(t.entry))]
      /\ UNCHANGED <<sessions, userSessions, now, nextToken, crashed>>

\* handleAiInsights; param is the symbol query parameter ("" when absent).
AiInsights(token, param, w1, w2, spans, dirs) ==
  LET username == authenticate(token)
      rd == readUsers(w1)
      symbol == ToUpperCase(IF param = "" THEN "HOG" ELSE param)
  IN  /\ ~crashed
      /\ observe' = observe /\ client' = client
      /\ now' = now
      /\ IF username = "" THEN Unauthorized("ai-insights")
         ELSE IF rd.threw THEN /\ Crash("ai-insights", username, rd.file)
                               /\ UNCHANGED <<nextId, nextToken, acked>>
         ELSE IF ~Has(rd.users, username)
         THEN /\ SetFile(rd.file)
              /\ last' = Response("ai-insights", username, StatusNotFound,
                                  ErrUnknownAccount, param, <<>>)
              /\ UNCHANGED <<sessions, userSessions, pending, nextId, nextToken,
                             crashed, acked>>
         ELSE \E r \in AiInsightsOf(rd.users[username], symbol, nextId, spans, dirs) :
                LET wr == writeUsers(Put(rd.users, username, r.user), w2, rd.file)
                IN  /\ nextId + r.used <= MaxIds
                    /\ nextId' = nextId + r.used
                    /\ IF wr.threw
                       THEN /\ Crash("ai-insights", username,
                                     [users |-> wr.users, torn |-> wr.torn])
                            /\ UNCHANGED <<nextToken, acked>>
                       ELSE /\ SetFile([users |-> wr.users, torn |-> wr.torn])
                            /\ last' = Response("ai-insights", username, StatusOk,
                                                NoError, param, r.state)
                            /\ UNCHANGED <<sessions, userSessions, pending,
                                           nextToken, crashed, acked>>

----------------------------------------------------------------------------
(* Callbacks of the browser page *)

\* The submit listener of the login form up to its await.
LoginSubmit ==
  /\ client.page = "auth"
  /\ InFlight(client) < MaxPending
  /\ client' = [client EXCEPT !.calls = @ (+) SetToBag({ClientCall("login", client)})]
  /\ UNCHANGED serverVars

\* The login request is answered.
LoginResponse(call, outcome) ==
  /\ BagIn(call, client.calls) /\ call.op = "login"
  /\ LET c == Answered(client, call)
     IN  client' =
           CASE outcome = "ok" -> enterMarket([c EXCEPT !.token = TRUE])
             [] outcome = "unauthorized" -> handleUnauthorized(c)
             [] OTHER -> c
  /\ UNCHANGED serverVars

\* The summary and history requests of enterMarket are answered.
ReadsResponse(call, outcome) ==
  /\ BagIn(call, client.calls) /\ call.op = "reads"
  /\ LET c == Answered(client, call)
     IN  client' =
           CASE outcome = "ok" -> fetchAiInsights(c)
             [] outcome = "unauthorized" -> handleUnauthorized(c)
             [] OTHER -> c
  /\ UNCHANGED serverVars

\* The ai-insights request is answered: the rest of fetchAiInsights.
AiResponse(call, outcome, valid) ==
  /\ BagIn(call, client.calls) /\ call.op = "ai"
  /\ LET c == Answered(client, call)
         d == CASE outcome = "ok" -> scheduleAiAutoRefresh(c, valid)
                [] outcome = "unauthorized" -> handleUnauthorized(c)
                [] OTHER -> c
     IN  client' = [d EXCEPT !.aiRefreshing = FALSE]
  /\ UNCHANGED serverVars

\* The timeout set by scheduleAiAutoRefresh fires.
AiTimerFires(t) ==
  /\ t \in client.timers /\ t.kind = "ai"
  /\ client.aiRefreshing \/ InFlight(client) < MaxPending
  /\ client' = fetchAiInsights([client EXCEPT !.timers = @ \ {t}])
  /\ UNCHANGED serverVars

\* The click listener of the logout button up to its await.
LogoutClick ==
  /\ client.page = "market"
  /\ IF client.token
     THEN /\ InFlight(client) < MaxPending
          /\ client' = [client EXCEPT
                          !.calls = @ (+) SetToBag({ClientCall("logout", client)})]
     ELSE client' = LogoutFinally(client)
  /\ UNCHANGED serverVars

\* The logout request is answered.
LogoutResponse(call, outcome) ==
  /\ BagIn(call, client.calls) /\ call.op = "logout"
  /\ LET c == Answered(client, call)
     IN  client' = LogoutFinally(IF outcome = "unauthorized"
                                 THEN handleUnauthorized(c) ELSE c)
  /\ UNCHANGED serverVars

\* A trade the user submitted is answered 401.
TradeUnauthorized ==
  /\ client.page = "market"
  /\ client' = handleUnauthorized(client)
  /\ UNCHANGED serverVars

----------------------------------------------------------------------------
(* Requests drawn from small sets *)

UsernameInputs == Usernames \cup {""}
LoginPasswords == {"pw", "bad"}
TokenInputs == 0 .. nextToken

\* Prices, in the currency unit.
PriceLow == INITIAL_BALANCE \div 4
PriceHigh == INITIAL_BALANCE \div 2

Bodies(types, symbols, quantities, prices) ==
  {TradeBody(type, symbol, quantity, price) :
     type \in types, symbol \in symbols, quantity \in quantities, price \in prices}

----------------------------------------------------------------------------
(* Spec: the whole server from start-up, every write succeeding *)

SpecBodies ==
  Bodies({"buy", "sell"}, {RawString("HOG")}, {RawNum(1), RawNum(2)},
         {RawNum(Money(PriceHigh))})
  \cup Bodies({"sell"}, {RawString("HOG")}, {RawNum(1)}, {RawHuge})

Next ==
  \/ \E u \in UsernameInputs : Register(u, "pw", WriteOk)
  \/ \E u \in Usernames, p \in LoginPasswords : Login(u, p, WriteOk)
  \/ \E t \in TokenInputs : Logout(t)
  \/ \E t \in TokenInputs : Summary(t, WriteOk)
  \/ \E t \in TokenInputs, s \in {"hog"} : History(t, s, WriteOk)
  \/ \E t \in TokenInputs : TradeRequest(t)
  \/ \E req \in BagToSet(pending) : TradeBodyRejected(req)
  \/ \E req \in BagToSet(pending), body \in SpecBodies :
       TradeBodyEnd(req, body, WriteOk, WriteOk)
  \/ \E t \in TokenInputs, s \in {"hog"} :
       AiInsights(t, s, WriteOk, WriteOk, {AI_MIN_INTERVAL}, {"up"})

Spec == Init /\ [][Next]_vars

----------------------------------------------------------------------------
(* SpecTrade: the trade requests of one logged-in user, with the responses *)
(* recorded                                                                *)

\* The server once u1 and u2 have registered and u1 has logged in.
LoggedIn ==
  /\ store = [u \in Usernames |-> NewAccount("pw")]
  /\ torn = FALSE
  /\ client = ClientLoaded
  /\ sessions = [t \in {1} |-> [username |-> "u1", createdAt |-> 0]]
  /\ userSessions = [u \in {"u1"} |-> 1]
  /\ pending = EmptyBag
  /\ now = 0
  /\ nextId = 0
  /\ nextToken = 1
  /\ crashed = FALSE
  /\ last = NoResponse
  /\ acked = [u \in Usernames |-> <<>>]

InitTrade ==
  /\ LoggedIn
  /\ observe = TRUE

TradeBodies ==
  Bodies({"buy", "sell"}, {RawString("HOG"), RawString(" gold")},
         {RawNum(1), RawNum(2)},
         {RawNum(Money(PriceLow)), RawNum(Money(PriceHigh))})
  \cup Bodies({"buy", "sell"}, {RawString("HOG")}, {RawNum(1), RawHuge},
              {RawNum(Money(PriceLow)), RawHuge})

NextTrade ==
  \/ \E t \in TokenInputs : TradeRequest(t)
  \/ \E req \in BagToSet(pending) : TradeBodyRejected(req)
  \/ \E req \in BagToSet(pending), body \in TradeBodies :
       TradeBodyEnd(req, body, WriteOk, WriteOk)

SpecTrade == InitTrade /\ [][NextTrade]_vars

----------------------------------------------------------------------------
(* SpecValidate: trade bodies invalid in every combination of side, symbol *)
(* and amount, submitted by one logged-in user                             *)

ValidateBodies ==
  Bodies({"buy", "sell", "hold"},
         {RawString("HOG"), RawString(" "), RawNotString},
         {RawNum(1), RawNum(0), RawText},
         {RawNum(Money(PriceHigh)), RawNum(-1)})

NextValidate ==
  \/ \E t \in TokenInputs : TradeRequest(t)
  \/ \E req \in BagToSet(pending), body \in ValidateBodies :
       TradeBodyEnd(req, body, WriteOk, WriteOk)

SpecValidate == InitTrade /\ [][NextValidate]_vars

----------------------------------------------------------------------------
(* SpecFault: the trade and summary requests of one logged-in user when a  *)
(* write of users.json may fail                                            *)

FaultBodies ==
  Bodies({"buy", "sell"}, {RawString("HOG")}, {RawNum(1)},
         {RawNum(Money(PriceHigh))})

NextFault ==
  \/ \E t \in TokenInputs : TradeRequest(t)
  \/ \E req \in BagToSet(pending), body \in FaultBodies, w \in Faults :
       TradeBodyEnd(req, body, WriteOk, w)
  \/ \E t \in TokenInputs : Summary(t, WriteOk)

SpecFault == InitTrade /\ [][NextFault]_vars

----------------------------------------------------------------------------
(* SpecAverage: buys and sells at prices of 3 decimals by one logged-in     *)
(* user, who starts with no position or with a large one                   *)

\* The table once u1 has bought 1000 HOG at 10.004.
SeededTable ==
  LET fresh == [u \in Usernames |-> NewAccount("pw")]
      body == TradeBody("buy", RawString("HOG"), RawNum(1000), RawNum(10004))
  IN  JsonUsers(ExecuteTrade(fresh, "u1", body, 0).users)

InitAverage ==
  /\ now = 0
  /\ store \in {[u \in Usernames |-> NewAccount("pw")], SeededTable}
  /\ torn = FALSE
  /\ client = ClientLoaded
  /\ sessions = [t \in {1} |-> [username |-> "u1", createdAt |-> 0]]
  /\ userSessions = [u \in {"u1"} |-> 1]
  /\ pending = EmptyBag
  /\ nextId = 0
  /\ nextToken = 1
  /\ crashed = FALSE
  /\ last = NoResponse
  /\ acked = [u \in Usernames |-> store[u].history]
  /\ observe = TRUE

AverageBodies ==
  Bodies({"buy"}, {RawString("HOG")}, {RawNum(1)}, {RawNum(14000), RawNum(10016)})
  \cup Bodies({"sell"}, {RawString("HOG")}, {RawNum(1), RawNum(1000)}, {RawNum(10016)})

NextAverage ==
  \/ \E t \in TokenInputs : TradeRequest(t)
  \/ \E req \in BagToSet(pending), body \in AverageBodies :
       TradeBodyEnd(req, body, WriteOk, WriteOk)

SpecAverage == InitAverage /\ [][NextAverage]_vars

----------------------------------------------------------------------------
(* SpecHistory: history queries, with and without a symbol, of one         *)
(* logged-in user who trades two symbols                                   *)

HistoryBodies ==
  Bodies({"buy"}, {RawString("HOG"), RawString(" gold")}, {RawNum(1)},
         {RawNum(Money(PriceLow))})

HistoryParams == {"", "HOG", "hog", "gold", "PORK"}

NextHistory ==
  \/ \E t \in TokenInputs : TradeRequest(t)
  \/ \E req \in BagToSet(pending), body \in HistoryBodies :
       TradeBodyEnd(req, body, WriteOk, WriteOk)
  \/ \E t \in TokenInputs, param \in HistoryParams : History(t, param, WriteOk)

SpecHistory == InitTrade /\ [][NextHistory]_vars

----------------------------------------------------------------------------
(* SpecLegacy: logins and reads on a users.json that an earlier version of *)
(* the server may have written                                             *)

\* A record with the single implicit position of the first version.
LegacyFlat ==
  [password |-> "pw", balance |-> Num(Money(INITIAL_BALANCE)),
   position |-> 2, averagePrice |-> Money(PriceLow)]

\* A record with holdings and a history entry that has no symbol, and without
\* aiInsights.
LegacyUntagged ==
  [password |-> "pw", balance |-> Num(Money(PriceHigh)),
   holdings |-> [s \in {"HOG"} |-> [position |-> 1, averagePrice |-> Money(PriceHigh)]],
   history |-> <<[id |-> 0, timestamp |-> 0, type |-> "buy", quantity |-> 1,
                  price |-> Num(Money(PriceHigh)),
                  balanceAfter |-> Num(Money(PriceHigh)),
                  positionAfter |-> 1, realizedPnl |-> Num(0)]>>]

LegacyTables ==
  {[u \in Usernames |-> IF u = "u1" THEN a ELSE b] :
     a \in {LegacyFlat, LegacyUntagged, NewAccount("pw")},
     b \in {LegacyFlat, NewAccount("pw")}}

InitLegacy ==
  /\ store \in LegacyTables
  /\ torn = FALSE
  /\ client = ClientLoaded
  /\ sessions = EmptyMap
  /\ userSessions = EmptyMap
  /\ pending = EmptyBag
  /\ now = 0
  /\ nextId = 0
  /\ nextToken = 0
  /\ crashed = FALSE
  /\ last = NoResponse
  /\ acked = [u \in Usernames |-> <<>>]
  /\ observe = TRUE

NextLegacy ==
  \/ \E u \in Usernames, p \in LoginPasswords, w \in Faults : Login(u, p, w)
  \/ \E t \in TokenInputs : Logout(t)
  \/ \E t \in TokenInputs, w \in Faults : Summary(t, w)
  \/ \E t \in TokenInputs, param \in {"", "hog"}, w \in Faults : History(t, param, w)

SpecLegacy == InitLegacy /\ [][NextLegacy]_vars

----------------------------------------------------------------------------
(* SpecAuth: every authenticated route called with any token, live, stale  *)
(* or absent, on a users.json that a read may have to rewrite              *)

AuthBodies ==
  Bodies({"buy"}, {RawString("HOG")}, {RawNum(1)}, {RawNum(Money(PriceLow))})

\* The server started on a users.json of the first version: no session yet.
InitAuth ==
  /\ InitLegacy
  /\ store = [u \in Usernames |-> LegacyFlat]

NextAuth ==
  \/ \E u \in {"u1"} : Login(u, "pw", WriteOk)
  \/ \E t \in TokenInputs : Logout(t)
  \/ \E t \in TokenInputs : Summary(t, WriteOk)
  \/ \E t \in TokenInputs : History(t, "", WriteOk)
  \/ \E t \in TokenInputs : TradeRequest(t)
  \/ \E req \in BagToSet(pending), body \in AuthBodies :
       TradeBodyEnd(req, body, WriteOk, WriteOk)
  \/ \E t \in TokenInputs :
       AiInsights(t, "hog", WriteOk, WriteOk, {AI_MIN_INTERVAL}, {"up"})

SpecAuth == InitAuth /\ [][NextAuth]_vars

----------------------------------------------------------------------------
(* SpecMigrate: the first reads of a users.json whose records are of any   *)
(* earlier shape, when the rewrite may fail                                *)

\* A record of the first version whose position was closed.
LegacyClosed ==
  [password |-> "pw", balance |-> Num(Money(INITIAL_BALANCE)),
   position |-> 0, averagePrice |-> 0]

\* A record of the first version with a position and no averagePrice.
LegacyNoAverage ==
  [password |-> "pw", balance |-> Num(Money(PriceHigh)), position |-> 1]

MigrateTables ==
  {[u \in Usernames |-> IF u = "u1" THEN a ELSE b] :
     a \in {LegacyFlat, LegacyClosed, LegacyNoAverage, LegacyUntagged,
            NewAccount("pw")},
     b \in {LegacyFlat, NewAccount("pw")}}

InitMigrate ==
  /\ store \in MigrateTables
  /\ torn = FALSE
  /\ client = ClientLoaded
  /\ sessions = EmptyMap
  /\ userSessions = EmptyMap
  /\ pending = EmptyBag
  /\ now = 0
  /\ nextId = 0
  /\ nextToken = 0
  /\ crashed = FALSE
  /\ last = NoResponse
  /\ acked = [u \in Usernames |-> <<>>]
  /\ observe = TRUE

NextMigrate ==
  \/ \E u \in Usernames, p \in LoginPasswords, w \in Faults : Login(u, p, w)
  \/ \E t \in TokenInputs, w \in Faults : Summary(t, w)
  \/ \E u \in Usernames, w \in Faults : Register(u, "pw", w)

SpecMigrate == InitMigrate /\ [][NextMigrate]_vars

----------------------------------------------------------------------------
(* SpecRegister: registrations of new and of taken usernames, between the  *)
(* logins and trades of the registered users                               *)

InitRegister ==
  /\ Started
  /\ observe = TRUE

RegisterNames == UsernameInputs \cup {"constructor"}
RegisterPasswords == {"pw", "other", ""}

NextRegister ==
  \/ \E u \in RegisterNames, p \in RegisterPasswords : Register(u, p, WriteOk)
  \/ \E u \in {"u1"} : Login(u, "pw", WriteOk)
  \/ \E t \in TokenInputs : Logout(t)
  \/ \E t \in TokenInputs : Summary(t, WriteOk)
  \/ \E t \in TokenInputs : History(t, "", WriteOk)
  \/ \E t \in TokenInputs : TradeRequest(t)
  \/ \E req \in BagToSet(pending), body \in AuthBodies :
       TradeBodyEnd(req, body, WriteOk, WriteOk)
  \/ \E t \in TokenInputs :
       AiInsights(t, "hog", WriteOk, WriteOk, {AI_MIN_INTERVAL}, {"up"})

SpecRegister == InitRegister /\ [][NextRegister]_vars

----------------------------------------------------------------------------
(* SpecSymbol: trades and history queries of one logged-in user with the   *)
(* symbol spelled in several ways                                          *)

\* The spellings of HOG a body may carry.
HogSpellings == {RawString("HOG"), RawString("hog"), RawString(" hog ")}

\* Symbol fields that are blank or no string.
NoSymbols == {RawString(""), RawString(" "), RawNotString}

SymbolBodies ==
  Bodies({"buy", "sell"}, HogSpellings \cup NoSymbols, {RawNum(1)},
         {RawNum(Money(PriceLow))})

SymbolParams == {"hog", "HOG", " hog "}

NextSymbol ==
  \/ \E t \in TokenInputs : TradeRequest(t)
  \/ \E req \in BagToSet(pending), body \in SymbolBodies :
       TradeBodyEnd(req, body, WriteOk, WriteOk)
  \/ \E t \in TokenInputs, param \in SymbolParams : History(t, param, WriteOk)

SpecSymbol == InitTrade /\ [][NextSymbol]_vars

----------------------------------------------------------------------------
(* SpecTrace: the trades of a user who has bought 10 HOG at 120.00 from the *)
(* starting balance                                                        *)

\* users.json once u1, registered with the starting balance, bought 10 HOG at
\* 120.00.
TraceTable ==
  LET fresh == [u \in Usernames |-> NewAccount("pw")]
      body == TradeBody("buy", RawString("HOG"), RawNum(10), RawNum(Money(120)))
  IN  JsonUsers(ExecuteTrade(fresh, "u1", body, 0).users)

InitTrace ==
  /\ now = 0
  /\ store = TraceTable
  /\ torn = FALSE
  /\ client = ClientLoaded
  /\ sessions = [t \in {1} |-> [username |-> "u1", createdAt |-> 0]]
  /\ userSessions = [u \in {"u1"} |-> 1]
  /\ pending = EmptyBag
  /\ nextId = 0
  /\ nextToken = 1
  /\ crashed = FALSE
  /\ last = NoResponse
  /\ acked = [u \in Usernames |-> store[u].history]
  /\ observe = TRUE

TraceBodies ==
  Bodies({"buy"}, {RawString("HOG")}, {RawNum(5)},
         {RawNum(Money(130)), RawNum(Money(140))})
  \cup Bodies({"sell"}, {RawString("HOG")}, {RawNum(15), RawNum(10)},
              {RawNum(Money(140))})

NextTrace ==
  \/ \E t \in TokenInputs : TradeRequest(t)
  \/ \E req \in BagToSet(pending), body \in TraceBodies :
       TradeBodyEnd(req, body, WriteOk, WriteOk)

SpecTrace == InitTrace /\ [][NextTrace]_vars

----------------------------------------------------------------------------
(* SpecReads: summary and history requests of one logged-in user between   *)
(* the steps of trades whose write of users.json may fail                  *)

NextReads ==
  \/ \E t \in TokenInputs : TradeRequest(t)
  \/ \E req \in BagToSet(pending), body \in FaultBodies, w \in Faults :
       TradeBodyEnd(req, body, WriteOk, w)
  \/ \E t \in TokenInputs : Summary(t, WriteOk)
  \/ \E t \in TokenInputs : History(t, "", WriteOk)

SpecReads == InitTrade /\ [][NextReads]_vars

----------------------------------------------------------------------------
(* SpecFrame: trades in two symbols and ai-insights requests of two        *)
(* logged-in users who each hold HOG                                       *)

\* users.json once u1 and u2 have each bought 1 HOG.
FrameTable ==
  LET fresh == [u \in Usernames |-> NewAccount("pw")]
      body == TradeBody("buy", RawString("HOG"), RawNum(1), RawNum(Money(PriceLow)))
      one == ExecuteTrade(fresh, "u1", body, 0).users
  IN  JsonUsers(ExecuteTrade(one, "u2", body, -1).users)

InitFrame ==
  /\ now = 0
  /\ store = FrameTable
  /\ torn = FALSE
  /\ client = ClientLoaded
  /\ sessions = [t \in {1, 2} |->
                   [username |-> IF t = 1 THEN "u1" ELSE "u2", createdAt |-> 0]]
  /\ userSessions = [u \in Usernames |-> IF u = "u1" THEN 1 ELSE 2]
  /\ pending = EmptyBag
  /\ nextId = 0
  /\ nextToken = 2
  /\ crashed = FALSE
  /\ last = NoResponse
  /\ acked = [u \in Usernames |-> store[u].history]
  /\ observe = TRUE

FrameBodies ==
  Bodies({"buy", "sell"}, {RawString("HOG"), RawString("gold")}, {RawNum(1)},
         {RawNum(Money(PriceLow))})

NextFrame ==
  \/ \E t \in TokenInputs : TradeRequest(t)
  \/ \E req \in BagToSet(pending), body \in FrameBodies :
       TradeBodyEnd(req, body, WriteOk, WriteOk)
  \/ \E t \in TokenInputs :
       AiInsights(t, "hog", WriteOk, WriteOk, {AI_MIN_INTERVAL}, {"up"})

SpecFrame == InitFrame /\ [][NextFrame]_vars

----------------------------------------------------------------------------
(* SpecRoll: ai-insights requests of a logged-in user whose stored state   *)
(* for HOG is due since any time, from not yet to more than ten intervals  *)

\* The request time, in granules: a whole number of milliseconds.
RollNow == 30 * Ms

\* How long before the request the stored nextRefreshAt lies, in granules.
RollLags == {0 - Ms, 0, Ms, 2 * Ms,
             10 * AI_MIN_INTERVAL - Ms, 10 * AI_MIN_INTERVAL,
             10 * AI_MIN_INTERVAL + 2 * Ms}

\* UUIDs one run may draw: the ten of a full roll and two more.
RollIds == AI_MAX_ITERATIONS + 2

\* A stored state of n entries, newest first, due at nextRefreshAt.
StoredAiState(n, nextRefreshAt) ==
  [entries |-> [i \in 1 .. n |->
                  createAiInsight(0 - i, "HOG",
                                  nextRefreshAt - i * AI_MIN_INTERVAL, "down")],
   nextRefreshAt |-> nextRefreshAt]

\* The aiInsights of u1 when the server is asked: nothing, a state for HOG,
\* or one that lost its nextRefreshAt.
StoredAiInsights ==
  {EmptyMap}
  \cup {[s \in {"HOG"} |-> StoredAiState(n, RollNow - lag)] :
          n \in {1, AI_KEEP}, lag \in RollLags}
  \cup {[s \in {"HOG"} |-> [entries |-> StoredAiState(1, RollNow).entries]]}

InitRoll ==
  /\ now = RollNow
  /\ \E ai \in StoredAiInsights :
       store = [FrameTable EXCEPT !["u1"].aiInsights = ai]
  /\ torn = FALSE
  /\ client = ClientLoaded
  /\ sessions = [t \in {1} |-> [username |-> "u1", createdAt |-> 0]]
  /\ userSessions = [u \in {"u1"} |-> 1]
  /\ pending = EmptyBag
  /\ nextId = MaxIds - RollIds
  /\ nextToken = 1
  /\ crashed = FALSE
  /\ last = NoResponse
  /\ acked = [u \in Usernames |-> store[u].history]
  /\ observe = TRUE

\* Intervals of a whole and of a fractional number of milliseconds.
RollSpans == {AI_MIN_INTERVAL, AI_MIN_INTERVAL + 1}

NextRoll ==
  \E t \in TokenInputs, param \in {"hog", "gold"} :
    AiInsights(t, param, WriteOk, WriteOk, RollSpans, {"up"})

SpecRoll == InitRoll /\ [][NextRoll]_vars

----------------------------------------------------------------------------
(* SpecClient: the browser page through logins, logouts, 401 answers and   *)
(* ai-insights refreshes, its requests answered in any order               *)

InitClient ==
  /\ Started
  /\ observe = FALSE

NextClient ==
  \/ LoginSubmit
  \/ \E call \in BagToSet(client.calls) : \E o \in CallOutcomes(call) :
       LoginResponse(call, o)
  \/ \E call \in BagToSet(client.calls) : \E o \in CallOutcomes(call) :
       ReadsResponse(call, o)
  \/ \E call \in BagToSet(client.calls) :
       \E o \in CallOutcomes(call), valid \in BOOLEAN : AiResponse(call, o, valid)
  \/ \E t \in client.timers : AiTimerFires(t)
  \/ LogoutClick
  \/ \E call \in BagToSet(client.calls) : \E o \in CallOutcomes(call) :
       LogoutResponse(call, o)
  \/ TradeUnauthorized

SpecClient == InitClient /\ [][NextClient]_vars

----------------------------------------------------------------------------
(* Properties *)

Accounts == DOMAIN store

\* The position an account holds in a symbol: 0 when the key is absent.
Held(account, symbol) ==
  IF symbol \in DOMAIN account.holdings THEN account.holdings[symbol].position
  ELSE 0

\* `last` is the answer of handleTrade's callback to a body that parsed.
IsTradeReply(resp) ==
  resp.op = "trade" /\ resp.error \notin {ErrAuth, ErrException}

\* C1. Solvency: in every state reached from start-up by register, login,
\* logout, summary, history, trade and ai-insights requests, no account has a
\* negative balance (the comparison is the handler's own `<`, under which a
\* stored null reads as 0).
SolvencyInv ==
  \A u \in Accounts : ~JsLt(store[u].balance, Num(0))

\* A buy has taken the whole balance of an account.
SolvencyWitness ==
  \E u \in Accounts :
    /\ store[u].balance = Num(0)
    /\ Len(store[u].history) > 0
    /\ store[u].history[1].type = "buy"

\* C2. No short selling: every symbol present in an account's holdings has
\* position >= 0.
NonNegativePositionInv ==
  \A u \in Accounts : \A sym \in DOMAIN store[u].holdings :
    store[u].holdings[sym].position >= 0

\* A sell of more than the held position of a held symbol was refused.
NonNegativePositionWitness ==
  /\ IsTradeReply(last)
  /\ last.error = ErrInsufficientPosition
  /\ Held(store[last.user], TrimmedSymbol(last.body.symbol)) > 0

\* C7. Zero-position cleanup: a successful trade that leaves position 0 leaves
\* the symbol out of the holdings, and every key of the holdings has
\* position > 0.
ZeroPositionCleanupInv ==
  /\ \A u \in Accounts : \A sym \in DOMAIN store[u].holdings :
       store[u].holdings[sym].position > 0
  /\ (IsTradeReply(last) /\ last.status = StatusOk /\ last.entry.positionAfter = 0)
       => last.entry.symbol \notin DOMAIN store[last.user].holdings

\* A sell has just closed a position that a buy had opened.
ZeroPositionCleanupWitness ==
  /\ IsTradeReply(last)
  /\ last.status = StatusOk
  /\ last.body.type = "sell"
  /\ last.entry.positionAfter = 0
  /\ Len(store[last.user].history) = 2
  /\ store[last.user].history[2].positionAfter > 0

\* C8. History order: a user's history is the entries of that user's trades
\* answered 200, newest first, and nothing else: its length is the number N of
\* successful trades, and entry i is the (N - i + 1)-th of them.
HistoryNewestFirstInv ==
  \A u \in Accounts :
    /\ Len(store[u].history) = Len(acked[u])
    /\ \A i \in 1 .. Len(acked[u]) :
         store[u].history[i] = acked[u][Len(acked[u]) - i + 1]

\* Two trades have succeeded and a third request has just been rejected.
HistoryNewestFirstWitness ==
  /\ IsTradeReply(last)
  /\ last.status = StatusBadRequest
  /\ Len(acked[last.user]) = 2
  /\ acked[last.user][1] # acked[last.user][2]


IsSuffix(old, new) ==
  /\ Len(old) <= Len(new)
  /\ SubSeq(new, Len(new) - Len(old) + 1, Len(new)) = old

\* C3. No lost update: whatever requests are in flight together, the table in
\* users.json holds the effect of every request that was answered with success:
\* the account of every user who could log in, the entry of every trade
\* answered 200 in the history of the user who made it, and as balance and
\* position of that user those its latest trade left.
NoLostUpdateInv ==
  /\ \A t \in DOMAIN sessions : sessions[t].username \in Accounts
  /\ \A u \in Usernames : \A i \in 1 .. Len(acked[u]) :
       /\ u \in Accounts
       /\ \E j \in 1 .. Len(store[u].history) : store[u].history[j] = acked[u][i]
       /\ i = Len(acked[u]) =>
            /\ store[u].balance = acked[u][i].balanceAfter
            /\ Held(store[u], acked[u][i].symbol) = acked[u][i].positionAfter

\* Both users have had a trade answered 200 while a further trade request is
\* in flight.
NoLostUpdateWitness ==
  /\ \A u \in Usernames : Len(acked[u]) > 0
  /\ BagCardinality(pending) > 0

\* C9. History is append-only: over every step of the server, each account
\* stays in the table and its history before the step is a suffix of its
\* history after it.
HistoryAppendOnly ==
  [][\A u \in Accounts :
       /\ u \in DOMAIN store'
       /\ IsSuffix(store[u].history, store'[u].history)]_vars

\* A trade has been recorded on top of an earlier one.
HistoryAppendOnlyWitness ==
  \E u \in Accounts : Len(store[u].history) = 2

\* C4. A sell of more than the position held (also of a symbol not held) is
\* answered 400 InsufficientPosition and leaves users.json as it was.
SellBeyondPositionRejected ==
  [][(/\ IsTradeReply(last')
      /\ last'.body.type = "sell"
      /\ TradeValidation(last'.body) = NoError
      /\ JsLt(Num(Held(store[last'.user], TrimmedSymbol(last'.body.symbol))),
              NumberOf(last'.body.quantity)))
     => (/\ last'.status = StatusBadRequest
         /\ last'.error = ErrInsufficientPosition
         /\ store' = store)]_vars

\* A sell of 2 was refused to a user who holds 1 and has a history.
SellBeyondPositionWitness ==
  /\ IsTradeReply(last)
  /\ last.error = ErrInsufficientPosition
  /\ last.body.quantity = RawNum(2)
  /\ Held(store[last.user], TrimmedSymbol(last.body.symbol)) = 1
  /\ Len(store[last.user].history) > 0

\* C5. A buy whose cost price * quantity exceeds the balance is answered 400
\* InsufficientFunds and leaves users.json as it was; any other buy is answered
\* 200 and lowers the balance by exactly the cost.
BuyFundsRule ==
  [][(/\ IsTradeReply(last')
      /\ last'.body.type = "buy"
      /\ TradeValidation(last'.body) = NoError)
     => LET u == last'.user
            cost == JsMul(NumberOf(last'.body.price), NumberOf(last'.body.quantity))
        IN  IF JsLt(store[u].balance, cost)
            THEN /\ last'.status = StatusBadRequest
                 /\ last'.error = ErrInsufficientFunds
                 /\ store' = store
            ELSE /\ last'.status = StatusOk
                 /\ store'[u].balance = JsSub(store[u].balance, cost)]_vars

\* A buy that cost the whole balance has just been accepted.
BuyFundsWitness ==
  /\ IsTradeReply(last)
  /\ last.body.type = "buy"
  /\ last.status = StatusOk
  /\ store[last.user].balance = Num(0)

\* C10. Validation order: the reply to a trade body reports the first failing
\* check in the order side, symbol, amount, and a business-rule error only when
\* all three passed.
SideBad(body) == body.type # "buy" /\ body.type # "sell"
SymbolBad(body) == body.symbol.k # "string" \/ body.symbol.s \in {"", " ", "  "}
AmountBad(raw) == raw.k \in {"str", "undef"} \/ (raw.k = "num" /\ raw.v <= 0)

ValidationOrderInv ==
  IsTradeReply(last) =>
    IF SideBad(last.body) THEN last.error = ErrInvalidSide
    ELSE IF SymbolBad(last.body) THEN last.error = ErrInvalidSymbol
    ELSE IF AmountBad(last.body.quantity) \/ AmountBad(last.body.price)
    THEN last.error = ErrInvalidAmount
    ELSE last.error \in {NoError, ErrInsufficientFunds, ErrInsufficientPosition,
                         ErrUnknownAccount}

\* A body with a bad side, a bad symbol and a bad amount was answered
\* InvalidSide.
ValidationOrderWitness ==
  /\ IsTradeReply(last)
  /\ SideBad(last.body) /\ SymbolBad(last.body) /\ AmountBad(last.body.quantity)
  /\ last.error = ErrInvalidSide

\* Account b is account a after one complete trade: one entry on top of the
\* history, and the balance and the position that this entry records.
OneCompleteTrade(a, b) ==
  /\ Len(b.history) = Len(a.history) + 1
  /\ Tail(b.history) = a.history
  /\ LET e == b.history[1]
         sign == IF e.type = "buy" THEN 1 ELSE -1
     IN  /\ b.balance = e.balanceAfter
         /\ Held(b, e.symbol) = e.positionAfter
         /\ Held(b, e.symbol) = Held(a, e.symbol) + sign * e.quantity
         /\ \A sym \in (DOMAIN a.holdings \cup DOMAIN b.holdings) \ {e.symbol} :
              Held(a, sym) = Held(b, sym)

SameTradeState(a, b) ==
  /\ b.balance = a.balance
  /\ b.holdings = a.holdings
  /\ b.history = a.history

\* C6. Every step leaves users.json a readable table in which the balance,
\* holdings and history of each account are as they were or differ by one
\* complete trade, also when a write fails.
TradeAllOrNothing ==
  [][/\ ~torn'
     /\ \A u \in Accounts :
          /\ u \in DOMAIN store'
          /\ \/ SameTradeState(store[u], store'[u])
             \/ OneCompleteTrade(store[u], store'[u])]_vars

\* A raw amount that is no positive finite number.
AmountNotPositiveFinite(raw) == AmountBad(raw) \/ raw.k = "inf"

\* C11. A trade whose side and symbol are valid and whose quantity or price is
\* no positive finite number (zero, negative, non-numeric or infinite) is
\* answered InvalidAmount.
InfiniteAmountRejected ==
  (/\ IsTradeReply(last)
   /\ ~SideBad(last.body)
   /\ ~SymbolBad(last.body)
   /\ \/ AmountNotPositiveFinite(last.body.quantity)
      \/ AmountNotPositiveFinite(last.body.price))
  => last.error = ErrInvalidAmount

InvalidBody(body) ==
  \/ SideBad(body)
  \/ SymbolBad(body)
  \/ AmountBad(body.quantity)
  \/ AmountBad(body.price)

\* C12. Idempotent rejection: a trade body with a bad side, an empty symbol or
\* a non-positive quantity or price is answered 400 with a validation error and
\* leaves users.json as it was, and the same body submitted again right after
\* is answered with the same error.
IdempotentRejection ==
  [][(IsTradeReply(last') /\ InvalidBody(last'.body))
     => (/\ store' = store
         /\ torn' = torn
         /\ last'.status = StatusBadRequest
         /\ last'.error \in {ErrInvalidSide, ErrInvalidSymbol, ErrInvalidAmount}
         /\ (IsTradeReply(last) /\ last.body = last'.body)
              => last'.error = last.error)]_vars

\* A body with a non-positive amount was refused to a user who has traded,
\* while a further request is in flight.
IdempotentRejectionWitness ==
  /\ IsTradeReply(last)
  /\ ~SideBad(last.body) /\ ~SymbolBad(last.body)
  /\ AmountBad(last.body.quantity)
  /\ last.error = ErrInvalidAmount
  /\ Len(store[last.user].history) > 0
  /\ BagCardinality(pending) > 0

\* x is the amount y rounded to 2 decimals: a multiple of 0.01 nearest to y.
IsRounded2(x, y) ==
  /\ x % FixedStep = 0
  /\ 2 * (x - y) <= FixedStep
  /\ 2 * (y - x) <= FixedStep

\* C15. Realized P&L: the record of a successful sell of q at price p from a
\* holding of average cost c has realizedPnl = round((p - c) * q, 2), and the
\* record of a successful buy has realizedPnl = 0.
RealizedPnlRule ==
  [][(IsTradeReply(last') /\ last'.status = StatusOk)
     => LET e == last'.entry
            p == NumberOf(last'.body.price)
            q == NumberOf(last'.body.quantity)
            c == ensureHoldingStructure(store[last'.user].holdings, e.symbol).averagePrice
        IN  IF e.type = "buy" THEN e.realizedPnl = Num(0)
            ELSE /\ e.realizedPnl.k = "num"
                 /\ p.k = "num"
                 /\ IsRounded2(e.realizedPnl.v, (p.v - c) * q.v)]_vars

\* The symbols that occur in a history.
SymbolsOf(history) == {history[i].symbol : i \in DOMAIN history}

\* The newest record of a symbol in a history that has one.
NewestOf(history, symbol) ==
  history[CHOOSE i \in DOMAIN history :
            /\ history[i].symbol = symbol
            /\ \A j \in 1 .. i - 1 : history[j].symbol # symbol]

\* C17. The record a successful trade returns is the first element of the
\* user's history in users.json, with the balance and the position of its
\* symbol that users.json holds; and for every symbol, the newest record of
\* that symbol has the current position as positionAfter.
RecordMatchesStoreInv ==
  /\ (IsTradeReply(last) /\ last.status = StatusOk)
       => LET account == store[last.user]
          IN  /\ Len(account.history) > 0
              /\ account.history[1] = last.entry
              /\ last.entry.balanceAfter = account.balance
              /\ last.entry.positionAfter = Held(account, last.entry.symbol)
  /\ \A u \in Accounts : \A sym \in SymbolsOf(store[u].history) :
       NewestOf(store[u].history, sym).positionAfter = Held(store[u], sym)

\* A second trade, in another symbol than the first, has just succeeded.
RecordMatchesStoreWitness ==
  /\ IsTradeReply(last)
  /\ last.status = StatusOk
  /\ Len(store[last.user].history) = 2
  /\ store[last.user].history[2].symbol # last.entry.symbol
  /\ store[last.user].history[2].positionAfter > 0

\* The records of a symbol in a history are all buys.
BuysOnly(history, symbol) ==
  \A i \in DOMAIN history : history[i].symbol = symbol => history[i].type = "buy"

\* The number of records of a symbol in a history.
CountOf(history, symbol) ==
  Cardinality({i \in DOMAIN history : history[i].symbol = symbol})

\* The sum of price * quantity over the records of a symbol in a history.
RECURSIVE CostSum(_, _)
CostSum(history, symbol) ==
  IF history = <<>> THEN 0
  ELSE (IF Head(history).symbol = symbol
        THEN Head(history).price.v * Head(history).quantity ELSE 0)
       + CostSum(Tail(history), symbol)

\* |averagePrice - exact mean| * position of a holding bought by buys only.
AverageDrift(account, symbol) ==
  LET d == account.holdings[symbol].averagePrice * account.holdings[symbol].position
             - CostSum(account.history, symbol)
  IN  IF d >= 0 THEN d ELSE -d

\* C13 as stated. After buys only, the stored averagePrice is within 0.01 of
\* the exact quantity-weighted mean of the prices paid.
AverageWithinCent ==
  \A u \in Accounts : \A sym \in DOMAIN store[u].holdings :
    BuysOnly(store[u].history, sym)
      => AverageDrift(store[u], sym) <= FixedStep * store[u].holdings[sym].position

\* C13. After k buys only, the stored averagePrice is within 0.005 * k of the
\* exact quantity-weighted mean of the prices paid: within 0.01 after one or
\* two buys, and possibly further off after three or more.
AverageDriftBound ==
  \A u \in Accounts : \A sym \in DOMAIN store[u].holdings :
    BuysOnly(store[u].history, sym)
      => 2 * AverageDrift(store[u], sym)
           <= FixedStep * CountOf(store[u].history, sym)
                * store[u].holdings[sym].position

\* Three buys have left the average more than 0.01 off the exact mean.
AverageDriftWitness ==
  \E u \in Accounts : \E sym \in DOMAIN store[u].holdings :
    /\ BuysOnly(store[u].history, sym)
    /\ CountOf(store[u].history, sym) = 3
    /\ AverageDrift(store[u], sym) > FixedStep * store[u].holdings[sym].position

\* C14. A successful buy of q at price p on a holding (position n, average
\* cost c) leaves position n + q and average cost round((c * n + p * q) /
\* (n + q), 2); a first buy (n = 0) leaves average cost round(p, 2).
BuyAverageRule ==
  [][(IsTradeReply(last') /\ last'.status = StatusOk /\ last'.body.type = "buy")
     => LET sym == last'.entry.symbol
            before == ensureHoldingStructure(store[last'.user].holdings, sym)
            n == before.position
            c == before.averagePrice
            q == NumberOf(last'.body.quantity).v
            p == NumberOf(last'.body.price).v
            after == store'[last'.user].holdings[sym]
            d == after.averagePrice * (n + q) - (c * n + p * q)
        IN  /\ after.position = n + q
            /\ after.averagePrice % FixedStep = 0
            /\ 2 * d <= FixedStep * (n + q)
            /\ -2 * d <= FixedStep * (n + q)
            /\ n = 0 => IsRounded2(after.averagePrice, p)]_vars

\* A buy has just been added to a position held, and the new average is no
\* exact quotient.
BuyAverageWitness ==
  /\ IsTradeReply(last)
  /\ last.status = StatusOk
  /\ last.body.type = "buy"
  /\ last.entry.positionAfter > last.entry.quantity
  /\ store[last.user].holdings[last.entry.symbol].averagePrice
       * last.entry.positionAfter
     # CostSum(store[last.user].history, last.entry.symbol)
  /\ BuysOnly(store[last.user].history, last.entry.symbol)

\* C16. No stale cost basis: a successful buy of q at price p of a symbol
\* traded before and no longer held leaves position q and average cost
\* round(p, 2).
NoStaleCostBasis ==
  [][(/\ IsTradeReply(last')
      /\ last'.status = StatusOk
      /\ last'.body.type = "buy"
      /\ last'.entry.symbol \in SymbolsOf(store[last'.user].history)
      /\ Held(store[last'.user], last'.entry.symbol) = 0)
     => LET after == store'[last'.user].holdings[last'.entry.symbol]
        IN  /\ after.position = NumberOf(last'.body.quantity).v
            /\ IsRounded2(after.averagePrice, NumberOf(last'.body.price).v)]_vars

\* A symbol bought at 10.004 and sold out has just been bought again, and its
\* average is no longer the 10.00 of the closed position.
NoStaleCostBasisWitness ==
  /\ IsTradeReply(last)
  /\ last.status = StatusOk
  /\ last.body.type = "buy"
  /\ Len(store[last.user].history) = 3
  /\ store[last.user].history[2].type = "sell"
  /\ store[last.user].history[2].symbol = last.entry.symbol
  /\ store[last.user].history[2].positionAfter = 0
  /\ store[last.user].history[3].symbol = last.entry.symbol
  /\ store[last.user].holdings[last.entry.symbol].averagePrice # 10000

\* C18. A trade is answered 200 only in a step that has written the table
\* with that trade to users.json: the file is whole, the user's history is the
\* returned record on top of the history the file held when the body arrived,
\* and the other accounts are those the file held then.
SuccessAfterWrite ==
  [][(IsTradeReply(last') /\ last'.status = StatusOk)
     => (/\ ~torn'
         /\ DOMAIN store' = DOMAIN store
         /\ store'[last'.user].history = <<last'.entry>> \o store[last'.user].history
         /\ store'[last'.user].balance = last'.entry.balanceAfter
         /\ \A v \in DOMAIN store \ {last'.user} : store'[v] = store[v])]_vars

\* A trade has just been answered 200 after the write of an earlier trade
\* failed.
SuccessAfterWriteWitness ==
  /\ IsTradeReply(last)
  /\ last.status = StatusOk
  /\ nextId = 2
  /\ Len(store[last.user].history) = 1

\* The records of a history whose symbol is `symbol`, in their order.
RECURSIVE Matching(_, _)
Matching(history, symbol) ==
  IF history = <<>> THEN <<>>
  ELSE (IF Head(history).symbol = symbol THEN <<Head(history)>> ELSE <<>>)
       \o Matching(Tail(history), symbol)

\* `last` is the answer 200 of handleHistory.
IsHistoryReply(resp) == resp.op = "history" /\ resp.status = StatusOk

\* C19 as stated. A history query with a symbol returns the records whose
\* symbol equals the filter, in stored order; without one, the whole history.
HistoryFilterExact ==
  IsHistoryReply(last)
    => last.entry = IF last.body = "" THEN store[last.user].history
                    ELSE Matching(store[last.user].history, last.body)

\* C19. A history query with a symbol returns the records whose symbol equals
\* the filter put in upper case, in stored order; without one (or with an
\* empty one), the whole history in stored order.
HistoryFilterUpperCase ==
  IsHistoryReply(last)
    => last.entry = IF last.body = "" THEN store[last.user].history
                    ELSE Matching(store[last.user].history, ToUpperCase(last.body))

\* A query with the filter "hog" has returned one of the two records of a
\* user who traded two symbols.
HistoryFilterWitness ==
  /\ IsHistoryReply(last)
  /\ last.body = "hog"
  /\ Len(last.entry) = 1
  /\ Len(store[last.user].history) = 2

\* C20. A summary or history request leaves users.json as it was, also when
\* the server started on a file with records of an earlier shape.
ReadsLeaveStore ==
  [][last'.op \in {"summary", "history"} => (store' = store /\ torn' = torn)]_vars

\* A summary or history has been answered 200 to a user whose record was of
\* the first shape when the server started.
ReadsLeaveStoreWitness ==
  /\ last.op \in {"summary", "history"}
  /\ last.status = StatusOk
  /\ Held(store[last.user], "HOG") = 2
  /\ Has(store[last.user], "aiInsights")

\* Some live session is one of `username`.
HasSession(username) ==
  \E t \in DOMAIN sessions : sessions[t].username = username

\* C21. A trade, summary, history or ai-insights request is let through only
\* on a token of the session table: the 401 of withAuth comes with users.json,
\* the pending trades and the id counter untouched, every other answer of a
\* summary, history or ai-insights request is to a user who had a session when
\* it arrived, and a trade request is kept waiting for its body only for such
\* a user.
AuthGate ==
  [][/\ last'.error = ErrAuth
          => /\ last'.status = StatusUnauthorized
             /\ last'.op \in {"trade", "summary", "history", "ai-insights"}
             /\ store' = store /\ torn' = torn
             /\ pending' = pending /\ nextId' = nextId
     /\ (last'.op \in {"summary", "history", "ai-insights"} /\ last'.error # ErrAuth)
          => HasSession(last'.user)
     /\ \A u \in Usernames :
          CopiesIn(PendingRequest(u), pending') > CopiesIn(PendingRequest(u), pending)
            => HasSession(u)]_vars

\* An ai-insights request without a live session has been answered 401 while
\* users.json still holds a record of the first shape, which a read would
\* have rewritten.
AuthGateWitness ==
  /\ last.error = ErrAuth
  /\ last.op = "ai-insights"
  /\ \E u \in DOMAIN store : Has(store[u], "position")

\* C22. After every step at most one token of the session table maps to a
\* username, userSessions[u] = t exactly when sessions[t].username = u, and a
\* login answered 200 leaves the user with the returned token only: every
\* token that mapped to the user before is gone from the table.
SingleSession ==
  [][/\ \A t1, t2 \in DOMAIN sessions' :
          sessions'[t1].username = sessions'[t2].username => t1 = t2
     /\ \A u \in Usernames, t \in 0 .. nextToken' :
          (Has(userSessions', u) /\ userSessions'[u] = t)
            <=> (Has(sessions', t) /\ sessions'[t].username = u)
     /\ (last'.op = "login" /\ last'.status = StatusOk)
          => /\ Has(sessions', last'.entry)
             /\ sessions'[last'.entry].username = last'.user
             /\ \A t \in DOMAIN sessions :
                  sessions[t].username = last'.user => ~Has(sessions', t)]_vars

\* The second login of a run has been answered 200 and both users hold a
\* session.
SingleSessionWitness ==
  /\ last.op = "login"
  /\ last.status = StatusOk
  /\ last.entry = 2
  /\ Cardinality(DOMAIN sessions) = 2
  /\ Cardinality(DOMAIN userSessions) = 2

\* A record of the current shape: holdings and history present, every history
\* entry with a symbol, no top-level position or averagePrice.
CurrentShape(user) ==
  /\ Has(user, "holdings") /\ Has(user, "history")
  /\ ~Has(user, "position") /\ ~Has(user, "averagePrice")
  /\ \A i \in DOMAIN user.history :
       Has(user.history[i], "symbol") /\ user.history[i].symbol # ""

\* The record `new` is `old` with nothing but the shape changed.
SameValues(old, new) ==
  /\ new.password = old.password
  /\ new.balance = old.balance
  /\ Has(old, "holdings") => new.holdings = old.holdings
  /\ (~Has(old, "holdings") /\ Has(old, "position") /\ old.position # 0)
       => new.holdings =
            [s \in {"HOG"} |->
               [position |-> old.position,
                averagePrice |-> IF Has(old, "averagePrice") THEN old.averagePrice
                                 ELSE 0]]
  /\ (~Has(old, "holdings") /\ (~Has(old, "position") \/ old.position = 0))
       => new.holdings = EmptyMap
  /\ Has(old, "history")
       => /\ Len(new.history) = Len(old.history)
          /\ \A i \in DOMAIN old.history :
               \A f \in DOMAIN old.history[i] \ {"symbol"} :
                 new.history[i][f] = old.history[i][f]

\* C23. Whatever users.json holds, readUsers returns a table of the same
\* accounts in the current shape with the values kept, attempts a write
\* exactly when the table it returns differs from the file, leaves the file
\* holding the returned table, and a read of that file changes nothing and
\* attempts no write.
MigrationConverges ==
  ~torn =>
    LET first == readUsers(WriteOk)
        changed == first.users # store
    IN  /\ ~first.threw
        /\ DOMAIN first.users = DOMAIN store
        /\ \A u \in DOMAIN store :
             CurrentShape(first.users[u]) /\ SameValues(store[u], first.users[u])
        /\ readUsers(WriteTorn).threw <=> changed
        /\ readUsers(WriteUnwritten).threw <=> changed
        /\ first.file.users = first.users
        /\ normalizeUsers(first.file.users) = first.file.users
        /\ ~NormalizeUpdated(first.file.users)
        /\ (last.op \in {"login", "summary"} /\ last.error \in {NoError, ErrCredentials})
             => ~changed

\* A login has read a file with a record of the first version that had a
\* position and no averagePrice: the file now holds it under HOG at price 0.
MigrationConvergesWitness ==
  /\ last.op = "login"
  /\ last.status = StatusOk
  /\ ~torn
  /\ Has(store["u1"], "holdings")
  /\ Has(store["u1"].holdings, "HOG")
  /\ store["u1"].holdings["HOG"] = [position |-> 1, averagePrice |-> 0]
  /\ store["u1"].history = <<>>

\* C24 as stated. A registration with a username and a password is answered
\* 200 exactly when users.json has no account of that username, and then adds
\* an account with the starting balance, no holdings and no history; every
\* other registration leaves users.json as it was.
RegisterRule ==
  [][last'.op = "register"
       => /\ last'.status = StatusOk
               => /\ ~Has(store, last'.user)
                  /\ DOMAIN store' = DOMAIN store \cup {last'.user}
                  /\ \A v \in DOMAIN store : store'[v] = store[v]
                  /\ store'[last'.user].balance = Num(Money(INITIAL_BALANCE))
                  /\ store'[last'.user].holdings = EmptyMap
                  /\ store'[last'.user].history = <<>>
          /\ last'.status # StatusOk => store' = store
          /\ Has(store, last'.user) => last'.error \in {ErrExists, ErrRequired}
          /\ (~Has(store, last'.user) /\ last'.error # ErrRequired)
               => last'.status = StatusOk]_vars

\* C25. No step removes an account from users.json, every session and every
\* trade request waiting for its body is of a user with an account, and no
\* request is answered with the unknown-account error.
AccountsOnlyGrow ==
  [][/\ DOMAIN store \subseteq DOMAIN store'
     /\ \A t \in DOMAIN sessions' : Has(store', sessions'[t].username)
     /\ \A req \in BagToSet(pending') : Has(store', req.username)
     /\ last'.error # ErrUnknownAccount]_vars

\* A trade, summary or history request has been answered 200 to a user who
\* registered before another account was added.
AccountsOnlyGrowWitness ==
  /\ last.op \in {"trade", "summary", "history"}
  /\ last.status = StatusOk
  /\ last.user = "u1"
  /\ Has(store, "u2")
  /\ nextToken = 2

IsTradeOf(e, type, q, p) ==
  e.type = type /\ e.symbol = "HOG" /\ e.quantity = q /\ e.price = Num(Money(p))

\* C27. From balance 1,000,000 and no holdings: after buy 10 HOG at 120.00 the
\* balance is 998,800.00 and HOG is {10, 120.00}; after buy 5 at 130.00 on top
\* of it the balance is 998,150.00 and HOG is {15, 123.33}; after sell 15 at
\* 140.00 on top of both the balance is 1,000,250.00, HOG is absent from the
\* holdings and the record of the sell has realizedPnl 250.05.
WorkedTrace ==
  LET a == store["u1"]
      h == a.history
      n == Len(h)
      first == n >= 1 /\ IsTradeOf(h[n], "buy", 10, 120)
      second == first /\ n >= 2 /\ IsTradeOf(h[n - 1], "buy", 5, 130)
      third == second /\ n >= 3 /\ IsTradeOf(h[n - 2], "sell", 15, 140)
  IN  /\ n >= 1
      /\ first
      /\ h[n].balanceAfter = Num(Money(998800))
      /\ h[n].positionAfter = 10
      /\ n = 1 => /\ a.balance = Num(Money(998800))
                  /\ a.holdings = [s \in {"HOG"} |->
                                     [position |-> 10, averagePrice |-> Money(120)]]
      /\ second => /\ h[n - 1].balanceAfter = Num(Money(998150))
                   /\ h[n - 1].positionAfter = 15
      /\ (second /\ n = 2)
           => /\ a.balance = Num(Money(998150))
              /\ a.holdings = [s \in {"HOG"} |->
                                 [position |-> 15, averagePrice |-> 123330]]
      /\ third => /\ h[n - 2].balanceAfter = Num(Money(1000250))
                  /\ h[n - 2].positionAfter = 0
                  /\ h[n - 2].realizedPnl = Num(250050)
      /\ (third /\ n = 3)
           => /\ a.balance = Num(Money(1000250))
              /\ ~Has(a.holdings, "HOG")

\* The three trades of the trace have been made, the sell answered last.
WorkedTraceWitness ==
  /\ IsTradeReply(last)
  /\ last.status = StatusOk
  /\ Len(store["u1"].history) = 3
  /\ IsTradeOf(store["u1"].history[1], "sell", 15, 140)
  /\ IsTradeOf(store["u1"].history[2], "buy", 5, 130)
  /\ last.entry = store["u1"].history[1]

\* C28 as stated. A trade, summary or history request that met a failure of
\* users.json has been answered with an error, the server still runs, and the
\* file is whole.
StoreFailureReported ==
  last.op \in {"trade", "summary", "history"}
    => /\ ~crashed
       /\ ~torn
       /\ last.error = ErrException => last.status = StatusBadRequest

\* The balance and the HOG position of a snapshot are those its newest
\* history record gives, or those of registration when there is none.
Coherent(balance, holdings, history) ==
  IF history = <<>>
  THEN balance = Num(Money(INITIAL_BALANCE)) /\ holdings = EmptyMap
  ELSE /\ balance = history[1].balanceAfter
       /\ Held([holdings |-> holdings], "HOG") = history[1].positionAfter

\* The history is that of the trades answered 200 so far, newest first.
IsAcked(history, records) ==
  /\ Len(history) = Len(records)
  /\ \A i \in DOMAIN history : history[i] = records[Len(records) + 1 - i]

\* C29. A summary or history answered 200 returns the balance, holdings and
\* history that users.json holds for the user, which are those left by the
\* trades answered 200 so far and fit one another, also when trade requests
\* wait for their bodies and when writes of trades failed.
ConsistentSnapshot ==
  /\ (last.op = "summary" /\ last.status = StatusOk)
       => /\ ~torn
          /\ last.entry.balance = store[last.user].balance
          /\ last.entry.holdings = store[last.user].holdings
          /\ last.entry.history = store[last.user].history
          /\ Coherent(last.entry.balance, last.entry.holdings, last.entry.history)
          /\ IsAcked(last.entry.history, acked[last.user])
  /\ IsHistoryReply(last)
       => /\ ~torn
          /\ last.entry = store[last.user].history
          /\ IsAcked(last.entry, acked[last.user])

\* A summary has been answered 200 with one trade in the history, after the
\* write of another trade failed, while a trade request waits for its body.
ConsistentSnapshotWitness ==
  /\ last.op = "summary"
  /\ last.status = StatusOk
  /\ Len(last.entry.history) = 1
  /\ nextId = 2
  /\ pending # EmptyBag

\* C30. A trade answered 200 to user u on symbol s leaves every other account
\* of users.json as it was, adds or removes no account, and in the account of
\* u leaves the password, the aiInsights, the set of fields and the holding of
\* every symbol other than s as they were.
TradeFrame ==
  [][(IsTradeReply(last') /\ last'.status = StatusOk)
       => LET u == last'.user
              s == last'.entry.symbol
          IN  /\ DOMAIN store' = DOMAIN store
              /\ \A v \in DOMAIN store \ {u} : store'[v] = store[v]
              /\ DOMAIN store'[u] = DOMAIN store[u]
              /\ store'[u].password = store[u].password
              /\ store'[u].aiInsights = store[u].aiInsights
              /\ DOMAIN store'[u].holdings \ {s} = DOMAIN store[u].holdings \ {s}
              /\ \A x \in DOMAIN store[u].holdings \ {s} :
                   store'[u].holdings[x] = store[u].holdings[x]
              /\ store'[u].history = <<last'.entry>> \o store[u].history]_vars

\* A trade in GOLD has been answered 200 to a user who holds HOG and has
\* ai-insights stored, while the other user has a holding and a history.
TradeFrameWitness ==
  /\ IsTradeReply(last)
  /\ last.status = StatusOk
  /\ last.entry.symbol = "GOLD"
  /\ Held(store[last.user], "HOG") = 1
  /\ store[last.user].aiInsights # EmptyMap
  /\ \E v \in DOMAIN store \ {last.user} :
       Held(store[v], "HOG") = 1 /\ Len(store[v].history) = 1

\* Money received minus money paid over the records of a history, in
\* thousandths; a record whose price is no number counts nothing.
RECURSIVE CashFlow(_)
CashFlow(history) ==
  IF history = <<>> THEN 0
  ELSE (IF Head(history).price.k # "num" THEN 0
        ELSE IF Head(history).type = "buy"
        THEN 0 - Head(history).price.v * Head(history).quantity
        ELSE Head(history).price.v * Head(history).quantity)
       + CashFlow(Tail(history))

\* Quantity bought minus quantity sold of a symbol over a history.
RECURSIVE NetQuantity(_, _)
NetQuantity(history, symbol) ==
  IF history = <<>> THEN 0
  ELSE (IF Head(history).symbol # symbol THEN 0
        ELSE IF Head(history).type = "buy" THEN Head(history).quantity
        ELSE 0 - Head(history).quantity)
       + NetQuantity(Tail(history), symbol)

\* C31. The balance of every account is the starting balance minus price *
\* quantity over its buy records plus price * quantity over its sell records,
\* and its position in every symbol is the quantity bought minus the quantity
\* sold over its history.
CashConservation ==
  \A u \in DOMAIN store :
    /\ store[u].balance = Num(Money(INITIAL_BALANCE) + CashFlow(store[u].history))
    /\ \A i \in DOMAIN store[u].history :
         store[u].history[i].price.k = "num"
    /\ \A s \in DOMAIN store[u].holdings \cup SymbolsOf(store[u].history) :
         Held(store[u], s) = NetQuantity(store[u].history, s)

\* C32. A sell answered 200 of fewer units than the position held leaves the
\* holding with the average cost it had and the position less the quantity.
PartialSellKeepsCost ==
  [][(/\ IsTradeReply(last')
      /\ last'.status = StatusOk
      /\ last'.body.type = "sell"
      /\ last'.entry.quantity < Held(store[last'.user], last'.entry.symbol))
     => LET before == store[last'.user].holdings[last'.entry.symbol]
            after == store'[last'.user].holdings[last'.entry.symbol]
        IN  /\ Has(store'[last'.user].holdings, last'.entry.symbol)
            /\ after.averagePrice = before.averagePrice
            /\ after.position = before.position - last'.entry.quantity]_vars

\* A sell of 1 unit at 10.016 out of a position of more than 1000 units has
\* been answered 200; the holding keeps an average other than the sell price.
PartialSellKeepsCostWitness ==
  /\ IsTradeReply(last)
  /\ last.status = StatusOk
  /\ last.body.type = "sell"
  /\ last.entry.quantity = 1
  /\ last.entry.positionAfter >= 1000
  /\ store[last.user].holdings["HOG"].averagePrice # 10016

\* C33 as stated. A trade is committed and answered 200 only while the user
\* it is committed for holds a session: no commit follows the logout of the
\* token that authorised the request.
CommitNeedsLiveSession ==
  [][(IsTradeReply(last') /\ last'.status = StatusOk)
       => HasSession(last'.user)]_vars

\* C34. A logout with a token the session table does not hold (none, never
\* issued, logged out, or evicted by a newer login) leaves both session maps
\* as they were; a logout with a token of the table removes that token and
\* the userSessions entry of its user, and nothing else.
LogoutFrame ==
  [][last'.op = "logout"
       => LET t == last'.entry
          IN  IF t # NoToken /\ Has(sessions, t)
              THEN /\ last'.user = sessions[t].username
                   /\ sessions' = Delete(sessions, t)
                   /\ userSessions' = Delete(userSessions, sessions[t].username)
              ELSE /\ sessions' = sessions
                   /\ userSessions' = userSessions]_vars

\* A logout with the first token of the run, no longer in the table, has been
\* answered while the second token is live.
LogoutFrameWitness ==
  /\ last.op = "logout"
  /\ last.entry = 1
  /\ last.user = ""
  /\ Has(sessions, 2)
  /\ Has(userSessions, sessions[2].username)

\* C35. An ai-insights request answered 200 leaves every other account as it
\* was, and in the account of the requesting user changes nothing but the
\* aiInsights state of the requested symbol, which is the state returned.
AiFrame ==
  [][(last'.op = "ai-insights" /\ last'.status = StatusOk)
       => LET u == last'.user
              s == ToUpperCase(last'.body)
          IN  /\ DOMAIN store' = DOMAIN store
              /\ \A v \in DOMAIN store \ {u} : store'[v] = store[v]
              /\ DOMAIN store'[u] = DOMAIN store[u]
              /\ \A f \in DOMAIN store[u] \ {"aiInsights"} :
                   store'[u][f] = store[u][f]
              /\ DOMAIN store'[u].aiInsights = DOMAIN store[u].aiInsights \cup {s}
              /\ \A x \in DOMAIN store[u].aiInsights \ {s} :
                   store'[u].aiInsights[x] = store[u].aiInsights[x]
              /\ store'[u].aiInsights[s] = last'.entry]_vars

\* An ai-insights request for GOLD has been answered 200 to a user who holds
\* HOG, has a history and has a state of three entries stored for HOG.
AiFrameWitness ==
  /\ last.op = "ai-insights"
  /\ last.status = StatusOk
  /\ last.body = "gold"
  /\ Has(store[last.user].aiInsights, "HOG")
  /\ Len(store[last.user].aiInsights["HOG"].entries) = AI_KEEP
  /\ Held(store[last.user], "HOG") = 1
  /\ Len(store[last.user].history) = 1

\* The step is an ai-insights request answered 200.
AiAnswered == last'.op = "ai-insights" /\ last'.status = StatusOk

\* The state stored for the requested symbol before the step had a
\* nextRefreshAt less than ten minimum intervals before the request.
DueWithinTen ==
  LET ai == store[last'.user].aiInsights
      s == ToUpperCase(last'.body)
  IN  /\ Has(ai, s)
      /\ Has(ai[s], "nextRefreshAt")
      /\ now - ai[s].nextRefreshAt < AI_MAX_ITERATIONS * AI_MIN_INTERVAL

\* The step drew at most ten UUIDs in rollAiState (and one more when the state
\* was created), and the state returned has 1 to 3 entries, newest first, and
\* a nextRefreshAt.
AiRollShape ==
  LET ai == store[last'.user].aiInsights
      s == ToUpperCase(last'.body)
      new == last'.entry
  IN  /\ nextId' - nextId
           <= AI_MAX_ITERATIONS + (IF Has(ai, s) THEN 0 ELSE 1)
      /\ Len(new.entries) >= 1
      /\ Len(new.entries) <= AI_KEEP
      /\ \A i \in 1 .. Len(new.entries) - 1 :
           new.entries[i].issuedAt > new.entries[i + 1].issuedAt
      /\ Has(new, "nextRefreshAt")

\* C36 as stated. Every ai-insights request answered 200 has the shape above,
\* and its nextRefreshAt is strictly later than the request time whenever the
\* stored one was less than ten minimum intervals in the past.
AiRollStrictlyLater ==
  [][AiAnswered
       => /\ AiRollShape
          /\ DueWithinTen => last'.entry.nextRefreshAt > now]_vars

\* C36. Every ai-insights request answered 200 has the shape above, and its
\* nextRefreshAt is not earlier than the request time whenever the stored one
\* was less than ten minimum intervals in the past.
AiRollNotEarlier ==
  [][AiAnswered
       => /\ AiRollShape
          /\ DueWithinTen => last'.entry.nextRefreshAt >= now]_vars

\* A request has been answered after a roll of ten insights: three entries
\* are kept and the next refresh lies after the request.
AiRollWitness ==
  /\ last.op = "ai-insights"
  /\ last.status = StatusOk
  /\ last.body = "hog"
  /\ nextId = MaxIds - RollIds + AI_MAX_ITERATIONS
  /\ Len(last.entry.entries) = AI_KEEP
  /\ last.entry.nextRefreshAt > now

\* The pending timers of a kind.
TimersOf(kind) == {t \in client.timers : t.kind = kind}

\* C37 as stated. At most one price timer and at most one ai-refresh timer
\* are pending, and while the page holds no token no ai-refresh timer is
\* pending.
TimersRespectSession ==
  /\ Cardinality(TimersOf("price")) <= 1
  /\ Cardinality(TimersOf("ai")) <= 1
  /\ ~client.token => TimersOf("ai") = {}

====
